---- MODULE Spec2Model ----
(***************************************************************************)
(* A model of the validator of macrocosm-os/mainframe: the evaluate /      *)
(* validation pipeline (folding/validators/md/reward.py), the job update   *)
(* loop, the reward loop and job insertion, the organic intake, the        *)
(* liveness monitor and the teardown (neurons/validator.py,                *)
(* folding/organic/api.py), the choice of uids (folding/utils/uids.py) and *)
(* the API's table of protein jobs (folding_api).                          *)
(*                                                                         *)
(* Energies are integers.  Percentages and probabilities are integers in   *)
(* percent.  The percentage test of the audit loop is cross-multiplied so  *)
(* that it is exact.                                                        *)
(***************************************************************************)
EXTENDS Integers, Sequences, FiniteSets, TLC

VARIABLES
    store,              \* the job store: a sequence of job records, job_id = index
    now,                \* wall clock, in seconds
    last_time_checked,  \* Validator.last_time_checked
    upd,                \* the update loop: its position, queue snapshot and job in hand
    rew,                \* the reward loop: the inactive jobs it still has to go through
    applied,            \* per job id, the number of update_scores calls made for it
    cred,               \* miner registry: per uid, the bounded history of samples
    scores,             \* Validator.scores: per uid, in eighths
    pin,                \* pipeline run: the responses and audit inputs, per uid
    pout,               \* pipeline run: what run_evaluation_validation_pipeline returned
    org,                \* organic intake: the intake queue, the pipe, the organic queue
    life,               \* the validator: should_exit, the event loop, its loops, its
                        \* fields last_time_created_jobs and config.protein.input_source
    crt,                \* the creation loop: its position and the challenge in hand
    call,               \* a call of an endpoint or of a helper: its arguments; in
                        \* the cycles of run_step, the metagraph
    ret                 \* what the call returned; in the cycles of run_step, the uids
                        \* queried; in the runs over a kept registry, its logs

vars == <<store, now, last_time_checked, upd, rew, applied, cred, scores, pin, pout,
         org, life, crt, call, ret>>

sysvars == <<store, now, last_time_checked, upd, rew, applied, cred, scores, org, life,
            crt, call, ret>>

----------------------------------------------------------------------------
(* Bounds of the model.                                                    *)

\* number of uids of the rich audit runs (every response and audit outcome)
AuditUids == 2
\* number of uids of the top-K runs above TOP_K
ExtraUids == 1
\* number of uids queried by the scheduler loops
SysUids == 2
\* number of jobs the store can hold
MaxJobs == 1
\* last tick of the clock
MaxTime == 1
\* number of update cycles one job can go through
MaxCycles == 2

----------------------------------------------------------------------------
(* Program constants.                                                      *)

TOP_K == 5

\* folding.utils.constants (not part of the sources at hand)
ANOMALY_THRESHOLD == 2

DIFFERENCE_THRESHOLD == 2

\* Job.best_loss of a job that has no verified outcome yet: larger than any energy
BestLossInit == 1000

\* validation probability, in percent, of a worker without samples
NewWorkerProbability == 100

\* the smallest validation probability, in percent: never zero
MinProbability == 10

\* length of the bounded credibility history
CredWindow == 2

\* an optional value: None, or Some(x)
None == <<>>

Some(x) == <<x>>

----------------------------------------------------------------------------
(* Helpers.                                                                *)

Abs(x) == IF x < 0 THEN 0 - x ELSE x

Range(s) == {s[i] : i \in 1..Len(s)}

Zeros(n) == [i \in 1..n |-> 0]

Min2(a, b) == IF a < b THEN a ELSE b

----------------------------------------------------------------------------
(* Miner registry: the per-cycle logs of a worker.                         *)

\* the logs of a worker after reset_miner_logs: every key with its default
DefaultLogs ==
    [can_process |-> FALSE, reported_energy |-> 0, files |-> 0, reason |-> "",
     is_valid |-> FALSE, is_duplicate |-> FALSE, checked |-> 0]

\* mutant: every scanned worker is drawn for audit
AuditedAlways(draw, vp) == TRUE

\* np.random.rand() < validation_probability, both in percent
Audited(draw, vp) == draw < vp

----------------------------------------------------------------------------
(* evaluate: the static pass.                                              *)

\* a response passes the static pass: status 200 and evaluator.evaluate() true
CanProcess(resp) == resp.status = "ok"

\* the statuses of a response whose handling raises in evaluate: before anything
\* is logged, after can_process is logged, after reported_energy is logged
RaiseStatuses == {"raise_early", "raise_logged", "raise_late"}

\* mutant: a worker whose handling raised late is kept as evaluable
EvaluatorsWithRaised(uids, inp) ==
    {u \in Range(uids) : CanProcess(inp[u]) \/ inp[u].status = "raise_late"}

\* the uids that got an evaluator
Evaluators(uids, inp) == {u \in Range(uids) : CanProcess(inp[u])}

\* the registry logs after evaluate, from the logs the registry held before:
\* only the keys evaluate assigns are overwritten
EvaluateOn(logs, uids, inp) ==
    [u \in Range(uids) |->
        IF CanProcess(inp[u])
        THEN [logs[u] EXCEPT !.can_process = TRUE,
                             !.reported_energy = inp[u].reported,
                             !.files = u]
        ELSE IF inp[u].status = "raise_logged"
        THEN [logs[u] EXCEPT !.can_process = TRUE]
        ELSE IF inp[u].status = "raise_late"
        THEN [logs[u] EXCEPT !.can_process = TRUE,
                             !.reported_energy = inp[u].reported]
        ELSE logs[u]]

\* the logs of a registry after reset_miner_logs
ResetMinerLogs(uids) == [u \in Range(uids) |-> DefaultLogs]

\* the registry logs after evaluate, in a registry whose logs were reset
Evaluate(uids, inp) == EvaluateOn(ResetMinerLogs(uids), uids, inp)

----------------------------------------------------------------------------
(* Ranking: sorted(all_miner_logs.items(), key = reported_energy), stable. *)

RECURSIVE InsertSorted(_, _, _)
InsertSorted(s, u, logs) ==
    IF s = <<>> THEN <<u>>
    ELSE IF logs[Head(s)].reported_energy <= logs[u].reported_energy
         THEN <<Head(s)>> \o InsertSorted(Tail(s), u, logs)
         ELSE <<u>> \o s

\* mutant: the workers are scanned in the order in which they were queried
SortUidsAsQueried(uids, logs) == uids

RECURSIVE SortUids(_, _)
SortUids(uids, logs) ==
    IF uids = <<>> THEN <<>>
    ELSE InsertSorted(SortUids(SubSeq(uids, 1, Len(uids) - 1), logs),
                      uids[Len(uids)], logs)

----------------------------------------------------------------------------
(* The sequential audit loop.                                              *)

\* mutant: a difference of exactly the threshold counts as too large
PercentDiffAtLeast(median, reported) ==
    Abs(median - reported) * 100 >= ANOMALY_THRESHOLD * Abs(reported)

\* percent_diff > c.ANOMALY_THRESHOLD, with
\* percent_diff = abs((median - reported) / reported) * 100, reported # 0
PercentDiffTooLarge(median, reported) ==
    Abs(median - reported) * 100 > ANOMALY_THRESHOLD * Abs(reported)

\* mutant: a difference of exactly the threshold counts as a duplicate
IsDuplicateAtMost(median, unique) ==
    \E e \in unique : Abs(median - e) <= DIFFERENCE_THRESHOLD

\* any(abs(median - energy) < c.DIFFERENCE_THRESHOLD for energy in unique_energies)
IsDuplicate(median, unique) ==
    \E e \in unique : Abs(median - e) < DIFFERENCE_THRESHOLD

\* mutant: the scan stops one unique valid outcome too early
ReachedTopKEarly(count) == count = TOP_K - 1

\* mutant: the scan stops one unique valid outcome too late
ReachedTopKLate(count) == count = TOP_K + 1

\* valid_unique_count == TOP_K: the scan stops
ReachedTopK(count) == count = TOP_K

\* the state of the scan before its first iteration
ScanInit(logs) ==
    [count |-> 0, processed |-> <<>>, unique |-> {}, logs |-> logs, stop |-> FALSE,
     validated |-> <<>>]

\* one iteration of the for loop over sorted_dict, for uid u; validated lists
\* the uids for which evaluator.validate was awaited, in the order of the calls
ScanOne(st0, u, inp, evaluators) ==
    LET reported == st0.logs[u].reported_energy
        audited  == Audited(inp[u].draw, inp[u].vp)
        median   == IF audited THEN inp[u].val_median ELSE reported
        reason   == IF audited THEN inp[u].val_reason ELSE "skip"
        is_valid == median # 0
        st       == IF audited
                    THEN [st0 EXCEPT !.validated = Append(st0.validated, u)]
                    ELSE st0
        logged   == [st.logs EXCEPT ![u].reason = reason,
                                    ![u].is_valid = is_valid,
                                    ![u].checked = median]
    IN  IF u \notin evaluators THEN st0
        ELSE IF reported = 0 THEN st0
        ELSE IF audited /\ inp[u].val_reason = "raise" THEN st
        ELSE IF is_valid /\ PercentDiffTooLarge(median, reported)
             THEN [st EXCEPT
                     !.logs = [logged EXCEPT
                                 ![u].is_valid = FALSE,
                                 ![u].reason = "energy_difference_too_large"],
                     !.processed = Append(st.processed, u)]
        ELSE IF is_valid
             THEN LET is_duplicate == IsDuplicate(median, st.unique)
                      logs2 == [logged EXCEPT ![u].is_duplicate = is_duplicate]
                  IN  IF is_duplicate
                      THEN [st EXCEPT !.logs = logs2,
                                      !.processed = Append(st.processed, u)]
                      ELSE [st EXCEPT !.logs = logs2,
                                      !.unique = st.unique \cup {median},
                                      !.count = st.count + 1,
                                      !.processed = Append(st.processed, u),
                                      !.stop = ReachedTopK(st.count + 1)]
        ELSE [st EXCEPT !.logs = logged,
                        !.processed = Append(st.processed, u)]

RECURSIVE Scan(_, _, _, _)
Scan(st, sorted, inp, evaluators) ==
    IF sorted = <<>> \/ st.stop THEN st
    ELSE Scan(ScanOne(st, Head(sorted), inp, evaluators), Tail(sorted), inp,
              evaluators)

----------------------------------------------------------------------------
(* The event and the energies the pipeline returns.                        *)

\* event[key].append(value) for every processed uid and every key of its logs
EventOf(processed, logs) ==
    [processed_uids |-> processed,
     is_valid     |-> [i \in 1..Len(processed) |-> logs[processed[i]].is_valid],
     is_duplicate |-> [i \in 1..Len(processed) |-> logs[processed[i]].is_duplicate],
     reason       |-> [i \in 1..Len(processed) |-> logs[processed[i]].reason],
     files        |-> [i \in 1..Len(processed) |-> logs[processed[i]].files],
     reported_energy |->
         [i \in 1..Len(processed) |-> logs[processed[i]].reported_energy]]

\* mutant: the zip assigns the checked energy of every processed worker
AcceptedEnergyAnyProcessed(u, event, logs) ==
    IF \E i \in 1..Len(event.processed_uids) : event.processed_uids[i] = u
    THEN logs[u].checked
    ELSE 0

\* mutant: the zip assigns the energy of every valid worker, duplicate or not
AcceptedEnergyAnyValid(u, event, logs) ==
    IF \E i \in 1..Min2(Len(event.processed_uids), Len(event.is_valid)) :
           /\ event.processed_uids[i] = u
           /\ event.is_valid[i]
    THEN logs[u].checked
    ELSE 0

\* the zip of processed_uids, is_valid and is_duplicate: the accepted energy of u
AcceptedEnergy(u, event, logs) ==
    IF \E i \in 1..Min2(Len(event.processed_uids),
                        Min2(Len(event.is_valid), Len(event.is_duplicate))) :
           /\ event.processed_uids[i] = u
           /\ event.is_valid[i]
           /\ ~event.is_duplicate[i]
    THEN logs[u].checked
    ELSE 0

\* mutant: the energies are listed for the processed uids, in rank order
EnergiesOfProcessed(uids, event, logs) ==
    [i \in 1..Len(event.processed_uids) |->
        AcceptedEnergy(event.processed_uids[i], event, logs)]

\* energies = {uid: 0 for uid in uids}, the assignments of the zip, and
\* list(energies.values()): one entry per uid, in the order of uids
EnergiesOf(uids, event, logs) ==
    [i \in 1..Len(uids) |-> AcceptedEnergy(uids[i], event, logs)]

\* run_evaluation_validation_pipeline up to the return statement, in a registry
\* that holds logs: what it returns, the logs after evaluate (evaluated) and
\* the logs before reset_miner_logs (logs)
PipelineOn(logs, uids, inp) ==
    LET logs0  == EvaluateOn(logs, uids, inp)
        sorted == SortUids(uids, logs0)
        st     == Scan(ScanInit(logs0), sorted, inp, Evaluators(uids, inp))
        event  == EventOf(st.processed, st.logs)
    IN  [energies |-> EnergiesOf(uids, event, st.logs),
         event    |-> event,
         count    |-> st.count,
         validated |-> st.validated,
         evaluated |-> logs0,
         logs     |-> st.logs]

\* run_evaluation_validation_pipeline: (list(energies.values()), event), in a
\* registry whose logs were reset
Pipeline(uids, inp) ==
    LET out == PipelineOn(ResetMinerLogs(uids), uids, inp)
    IN  [energies |-> out.energies,
         event    |-> out.event,
         count    |-> out.count,
         validated |-> out.validated]

----------------------------------------------------------------------------
(* Runs of the pipeline on its own: the responses, the audit draws and the  *)
(* results of the recomputations are drawn from bounded sets.              *)

\* energies reported and recomputed in the audit runs
AuditEnergies == {-100, -98, -97, 50}

\* a response that did not pass the static pass
Dropped(status) ==
    [status |-> status, reported |-> 0, vp |-> NewWorkerProbability, draw |-> 5,
     val_median |-> 0, val_reason |-> "none"]

\* a response that reports r and whose handling raises in evaluate
Raised(status, r) == [Dropped(status) EXCEPT !.reported = r]

\* a response that reports r and is not drawn for audit
Trusted(r) ==
    [status |-> "ok", reported |-> r, vp |-> MinProbability, draw |-> 50,
     val_median |-> 0, val_reason |-> "none"]

\* a response that reports r, is drawn for audit, and whose recomputation
\* yields (m, reason)
Checked(r, vp, m, reason) ==
    [status |-> "ok", reported |-> r, vp |-> vp, draw |-> 5,
     val_median |-> m, val_reason |-> reason]

\* what evaluator.validate can yield: a non-zero median with reason "valid", or
\* a zero median with the reason of the failure, or an exception ("raise")
FailReasons == {"invalid", "state-checkpoint", "raise"}

AuditInputs ==
    {Dropped("timeout"), Dropped("noproc"),
     [Dropped("ok") EXCEPT !.vp = MinProbability]}
    \cup {Raised(s, -100) : s \in RaiseStatuses}
    \cup {Trusted(r) : r \in AuditEnergies}
    \cup {Checked(r, NewWorkerProbability, m, "valid") :
            r \in AuditEnergies, m \in AuditEnergies}
    \cup {Checked(r, MinProbability, 0, f) : r \in AuditEnergies, f \in FailReasons}

\* the energy worker i reports in the top-K runs: lower for higher uids, two apart
TopKBase(i) == 0 - (100 + 2 * i)

\* the first worker may also be audited to a value far from what it reports
TopKInputs(i) ==
    {Dropped("timeout"),
     Trusted(TopKBase(i)),
     Checked(TopKBase(i), NewWorkerProbability, 0, "invalid"),
     Checked(TopKBase(i) + 1, NewWorkerProbability, TopKBase(i) + 1, "valid")}
    \cup (IF i = 1
          THEN {Checked(TopKBase(i), NewWorkerProbability, 50, "valid")}
          ELSE {})

RECURSIVE TopKRuns(_)
TopKRuns(n) ==
    IF n = 0 THEN {<<>>}
    ELSE {Append(s, x) : s \in TopKRuns(n - 1), x \in TopKInputs(n)}

RECURSIVE AuditRuns(_)
AuditRuns(n) ==
    IF n = 0 THEN {<<>>}
    ELSE {Append(s, x) : s \in AuditRuns(n - 1), x \in AuditInputs}

\* the uids of a run: 1..n in the order of the metagraph
UidsOf(inp) == [i \in 1..Len(inp) |-> i]

\* the scheduler loops of the validator
Loops ==
    {"create_synthetic_jobs", "update_jobs", "reward_loop", "sync_loop",
     "_handle_organic_api_pipe", "monitor_validator"}

\* the organic intake before any request: empty queues, an empty pipe
NoOrganic ==
    [intake |-> <<>>, pipe |-> <<>>, queue |-> <<>>, submitted |-> 0,
     send_errors |-> 0]

\* add_k_synthetic_jobs between two jobs: no challenge in hand
NoChallenge == [pc |-> "idle", pdb |-> 0]

\* the validator after __aenter__: running, no loop has iterated yet
Running ==
    [should_exit |-> FALSE, is_running |-> TRUE, stopped |-> FALSE,
     runs |-> [l \in Loops |-> 0]]

SysInit ==
    /\ store = <<>>
    /\ now = 0
    /\ last_time_checked = 0
    /\ upd = [pc |-> "sleep", queue |-> <<>>, cur |-> None]
    /\ rew = <<>>
    /\ applied = [j \in 1..MaxJobs |-> 0]
    /\ cred = [u \in 1..SysUids |-> <<>>]
    /\ scores = [u \in 1..SysUids |-> 0]
    /\ org = NoOrganic
    /\ crt = NoChallenge
    /\ call = None
    /\ ret = None
    /\ life = Running

\* run_step calls the pipeline on the responses
RunPipeline ==
    /\ pout = None
    /\ pout' = Some(Pipeline(UidsOf(pin), pin))
    /\ UNCHANGED <<pin, sysvars>>

----------------------------------------------------------------------------
(* The job, the job store and the credibility registry.                    *)

\* the hotkey of a uid (metagraph.hotkeys[uid]); hotkeys are named by their uid
HotkeyOf(uid) == uid

\* the per-worker arrays of job.event before the first update cycle
EmptyEvent ==
    [uids |-> <<>>, energies |-> <<>>, processed_uids |-> <<>>, is_valid |-> <<>>,
     is_duplicate |-> <<>>, reason |-> <<>>, files |-> <<>>]

\* a Job as the store creates it from a job event
NewJob(pdb, organic, active, failed, t) ==
    [pdb |-> pdb, is_organic |-> organic, active |-> active, failed |-> failed,
     hotkeys |-> <<>>, best_loss |-> BestLossInit, best_hotkey |-> 0,
     computed_rewards |-> None, updated_at |-> t,
     updated_count |-> 0, event |-> EmptyEvent]

\* Job.update: the running best only improves; the job is finalized once its
\* lifetime is exceeded
JobUpdate(job, loss, hotkey, expired, t) ==
    [job EXCEPT !.best_loss = IF loss < job.best_loss THEN loss ELSE @,
                !.best_hotkey = IF loss < job.best_loss THEN hotkey ELSE @,
                !.updated_at = t,
                !.updated_count = @ + 1,
                !.active = IF expired THEN FALSE ELSE @]

\* mutant: the queue of ready jobs holds the finalized jobs as well
RECURSIVE ReadyQueueAll(_, _)
ReadyQueueAll(st, j) ==
    IF j > Len(st) THEN <<>>
    ELSE (IF st[j].updated_count < MaxCycles
          THEN <<[id |-> j, job |-> st[j]]>> ELSE <<>>)
         \o ReadyQueueAll(st, j + 1)

\* store.get_queue(ready = True): the active jobs, in insertion order
RECURSIVE ReadyQueue(_, _)
ReadyQueue(st, j) ==
    IF j > Len(st) THEN <<>>
    ELSE (IF st[j].active /\ st[j].updated_count < MaxCycles
          THEN <<[id |-> j, job |-> st[j]]>> ELSE <<>>)
         \o ReadyQueue(st, j + 1)

\* store.get_inactive_queue(last_time_checked): the inactive jobs updated since
\* the checkpoint (both in whole seconds), in insertion order
RECURSIVE InactiveQueue(_, _, _)
InactiveQueue(st, j, checked) ==
    IF j > Len(st) THEN <<>>
    ELSE (IF ~st[j].active /\ st[j].updated_at >= checked
          THEN <<[id |-> j, job |-> st[j]]>> ELSE <<>>)
         \o InactiveQueue(st, j + 1, checked)

\* store.get_all_pdbs
AllPdbs(st) == {st[j].pdb : j \in 1..Len(st)}

RECURSIVE Passes(_)
Passes(h) == IF h = <<>> THEN 0 ELSE Head(h) + Passes(Tail(h))

\* get_validation_probability, in percent: 100 for a worker without samples,
\* lower for a higher pass rate, never below MinProbability
ValidationProbability(h) ==
    IF h = <<>> THEN NewWorkerProbability
    ELSE NewWorkerProbability
         - ((NewWorkerProbability - MinProbability) * Passes(h)) \div Len(h)

\* add_credibilities and update_credibility: a bounded history, oldest dropped
AddCredibility(h, sample) ==
    LET g == Append(h, sample)
    IN  IF Len(g) > CredWindow THEN Tail(g) ELSE g

----------------------------------------------------------------------------
(* Validator.credibility_pipeline and Validator.update_job.                *)

\* mutant: only a reason of "invalid" counts as a failed audit
SampleOfNotInvalid(reason) == IF reason = "invalid" THEN 0 ELSE 1

\* credibility = [0.0] if reason != "valid" else [1.0]
SampleOf(reason) == IF reason = "valid" THEN 1 ELSE 0

\* for uid, reason in zip(job.event["processed_uids"], job.event["reason"])
RECURSIVE CredibilityPipeline(_, _, _, _)
CredibilityPipeline(c, processed, reasons, i) ==
    IF i > Min2(Len(processed), Len(reasons)) THEN c
    ELSE CredibilityPipeline(
             IF reasons[i] = "skip" THEN c
             ELSE [c EXCEPT ![processed[i]] = AddCredibility(@, SampleOf(reasons[i]))],
             processed, reasons, i + 1)

\* mutant: every failed audit reduces the score
IsAnyFailure(reason) == reason # "valid"

\* reason == "state-checkpoint": an exploit on the checkpoint file was detected
IsIntegrityViolation(reason) == reason = "state-checkpoint"

\* 0.5 * self.scores[uid]; the scores of the model are even where this is applied
HalveScore(x) == x \div 2

\* the scores after credibility_pipeline: halved for every integrity violation
RECURSIVE CredibilityScores(_, _, _, _)
CredibilityScores(s, processed, reasons, i) ==
    IF i > Min2(Len(processed), Len(reasons)) THEN s
    ELSE CredibilityScores(
             IF reasons[i] # "skip" /\ IsIntegrityViolation(reasons[i])
             THEN [s EXCEPT ![processed[i]] = HalveScore(@)]
             ELSE s,
             processed, reasons, i + 1)

\* update_scores: the exponential moving average of the rewards, with a
\* smoothing factor of one half, for the uids of the job
RECURSIVE UpdateScores(_, _, _, _)
UpdateScores(s, rewards, uids, i) ==
    IF i > Min2(Len(rewards), Len(uids)) THEN s
    ELSE UpdateScores([s EXCEPT ![uids[i]] = (@ + 8 * rewards[i]) \div 2],
                      rewards, uids, i + 1)

\* np.argmin(energies): the first index of the least energy
ArgMin(energies) ==
    CHOOSE i \in 1..Len(energies) :
        /\ \A k \in 1..Len(energies) : energies[i] <= energies[k]
        /\ \A k \in 1..(i - 1) : energies[k] > energies[i]

\* (energies == 0).all()
AllZero(energies) == \A i \in 1..Len(energies) : energies[i] = 0

\* mutant: the reward model is applied only when some energy is non-zero
ApplyPipelineNonZeroOnly(energies, job) == ~AllZero(energies)

\* apply_pipeline, decided after job.update
ApplyPipeline(energies, job) ==
    IF AllZero(energies) THEN job.best_loss < 0 ELSE TRUE

\* the reward model of the job type: the workers with the best non-zero energy
\* of the cycle, or the holder of the historical best when all energies are zero
RewardModel(energies, job) ==
    [i \in 1..Len(energies) |->
        IF AllZero(energies)
        THEN (IF job.hotkeys[i] = job.best_hotkey THEN 1 ELSE 0)
        ELSE (IF energies[i] # 0 /\ energies[i] = energies[ArgMin(energies)]
              THEN 1 ELSE 0)]

\* mutant: the skip path's zero vector has one entry per scanned worker
ComputedRewardsPerScanned(energies, job) ==
    IF ApplyPipeline(energies, job)
    THEN RewardModel(energies, job)
    ELSE Zeros(Len(job.event.processed_uids))

\* job.computed_rewards after update_job
ComputedRewards(energies, job) ==
    IF ApplyPipeline(energies, job)
    THEN RewardModel(energies, job)
    ELSE Zeros(Len(job.hotkeys))

\* job.event.update(job_event): the keys of the cycle's event overwrite the old
MergeEvent(old, uids, out) ==
    [uids |-> uids,
     energies |-> out.energies,
     processed_uids |-> out.event.processed_uids,
     is_valid |-> out.event.is_valid,
     is_duplicate |-> out.event.is_duplicate,
     reason |-> IF Len(out.event.processed_uids) > 0 THEN out.event.reason
                ELSE old.reason,
     files |-> IF Len(out.event.processed_uids) > 0 THEN out.event.files
               ELSE old.files]

\* the (loss, hotkey) update_job passes to job.update
BestIndex(energies) == ArgMin(energies)

\* mutant: update_job overwrites the running best with the best of the cycle
UpdateJobComputeOverwrite(job, expired, t) ==
    LET energies   == job.event.energies
        best_index == BestIndex(energies)
        updated    == [JobUpdate(job, energies[best_index],
                                 job.hotkeys[best_index], expired, t)
                         EXCEPT !.best_loss = energies[best_index],
                                !.best_hotkey = job.hotkeys[best_index]]
    IN  [updated EXCEPT !.computed_rewards = Some(ComputedRewards(energies, updated))]

\* update_job up to the computed rewards, on the job with its cycle's event
UpdateJobCompute(job, expired, t) ==
    LET energies   == job.event.energies
        best_index == BestIndex(energies)
        updated    == JobUpdate(job, energies[best_index],
                                job.hotkeys[best_index], expired, t)
    IN  [updated EXCEPT !.computed_rewards = Some(ComputedRewards(energies, updated))]

InitPipeline ==
    /\ SysInit
    /\ pout = None
    /\ pin \in AuditRuns(AuditUids) \cup TopKRuns(TOP_K + ExtraUids)

NextPipeline == RunPipeline

SpecPipeline == InitPipeline /\ [][NextPipeline]_vars
----------------------------------------------------------------------------
(* The scheduler loops over the job store.                                 *)

\* the responses and audit inputs of one worker in a cycle of the scheduler; the
\* validation probability comes from the registry
SysInputs ==
    {Dropped("timeout"),
     Checked(-40, NewWorkerProbability, -40, "valid"),
     [Checked(-40, NewWorkerProbability, -40, "valid") EXCEPT !.draw = 50],
     Checked(-40, NewWorkerProbability, 0, "invalid"),
     Checked(20, NewWorkerProbability, 20, "valid")}

SysUidSeq == [i \in 1..SysUids |-> i]

\* the inputs of a cycle with the validation probabilities of the registry
WithProbabilities(inp, c) ==
    [u \in 1..Len(inp) |-> [inp[u] EXCEPT !.vp = ValidationProbability(c[u])]]

Tick ==
    /\ now < MaxTime
    /\ now' = now + 1
    /\ UNCHANGED <<store, last_time_checked, upd, rew, applied, cred, scores, pin,
                   pout, org, life, crt, call, ret>>

\* add_job for a synthetic job of add_k_synthetic_jobs: a pdb not yet in the store
AddSyntheticJob ==
    /\ Len(store) < MaxJobs
    /\ \E pdb \in (1..MaxJobs) \ AllPdbs(store) :
          store' = Append(store, NewJob(pdb, FALSE, TRUE, FALSE, now))
    /\ UNCHANGED <<now, last_time_checked, upd, rew, applied, cred, scores, pin, pout,
                   org, life, crt, call, ret>>

\* add_job for an organic job: a failed setup stores it inactive and failed
AddOrganicJobWith(capacity, pdbs) ==
    /\ Len(store) < capacity
    /\ \E pdb \in pdbs, setup_ok \in BOOLEAN :
          store' = Append(store, NewJob(pdb, TRUE, setup_ok, ~setup_ok, now))
    /\ UNCHANGED <<now, last_time_checked, upd, rew, applied, cred, scores, pin, pout,
                   org, life, crt, call, ret>>

AddOrganicJob == AddOrganicJobWith(MaxJobs, 1..MaxJobs)

\* update_jobs wakes up and reads the queue of ready jobs
UpdateJobsWake ==
    /\ upd.pc = "sleep"
    /\ ReadyQueue(store, 1) # <<>>
    /\ upd' = [pc |-> "loop", queue |-> ReadyQueue(store, 1), cur |-> None]
    /\ UNCHANGED <<store, now, last_time_checked, rew, applied, cred, scores, pin,
                   pout, org, life, crt, call, ret>>

\* forward returned no energies (Protein.from_job gave None): the job is made
\* inactive and written at once
UpdateJobsNoEnergies ==
    /\ upd.pc = "loop"
    /\ upd.queue # <<>>
    /\ LET item == Head(upd.queue)
       IN  /\ store' = [store EXCEPT ![item.id] = [item.job EXCEPT !.active = FALSE]]
           /\ upd' = [upd EXCEPT !.queue = Tail(upd.queue)]
    /\ UNCHANGED <<now, last_time_checked, rew, applied, cred, scores, pin, pout, org,
                   life, crt, call, ret>>

\* forward queries the workers and runs the pipeline; update_job runs the
\* credibility pipeline, job.update and the reward computation
UpdateJobsForwardWith(inputs) ==
    /\ upd.pc = "loop"
    /\ upd.queue # <<>>
    /\ \E resp \in [1..SysUids -> inputs], expired \in BOOLEAN :
         LET item == Head(upd.queue)
             inp  == WithProbabilities(resp, cred)
             out  == Pipeline(SysUidSeq, inp)
             job1 == [item.job EXCEPT
                        !.event = MergeEvent(@, SysUidSeq, out),
                        !.hotkeys = [i \in 1..SysUids |-> HotkeyOf(SysUidSeq[i])]]
             job2 == UpdateJobCompute(job1, expired, now)
         IN  /\ cred' = IF Len(job1.event.processed_uids) > 0
                        THEN CredibilityPipeline(cred, job1.event.processed_uids,
                                                 job1.event.reason, 1)
                        ELSE cred
             /\ scores' = IF Len(job1.event.processed_uids) > 0
                          THEN CredibilityScores(scores, job1.event.processed_uids,
                                                 job1.event.reason, 1)
                          ELSE scores
             /\ upd' = [upd EXCEPT
                          !.pc = "write",
                          !.cur = Some([id |-> item.id, job |-> job2,
                                        best_index |-> BestIndex(job1.event.energies),
                                        apply_pipeline |->
                                            ApplyPipeline(job1.event.energies, job2),
                                        expired |-> expired,
                                        status |-> [u \in 1..SysUids |-> resp[u].status]])]
    /\ UNCHANGED <<store, now, last_time_checked, rew, applied, pin, pout, org, life,
                   crt, call, ret>>

UpdateJobsForward == UpdateJobsForwardWith(SysInputs)

\* mutant: after the write the loop stays on the job it has just written
UpdateJobWriteKeeps ==
    /\ upd.pc = "write"
    /\ store' = [store EXCEPT ![upd.cur[1].id] = upd.cur[1].job]
    /\ upd' = [pc |-> "loop", queue |-> upd.queue, cur |-> None]
    /\ UNCHANGED <<now, last_time_checked, rew, applied, cred, scores, pin, pout, org,
                   life, crt, call, ret>>

\* update_job, after its awaits, writes the job to the store
UpdateJobWrite ==
    /\ upd.pc = "write"
    /\ store' = [store EXCEPT ![upd.cur[1].id] = upd.cur[1].job]
    /\ upd' = [pc |-> "loop", queue |-> Tail(upd.queue), cur |-> None]
    /\ UNCHANGED <<now, last_time_checked, rew, applied, cred, scores, pin, pout, org,
                   life, crt, call, ret>>

\* the for loop of update_jobs is over
UpdateJobsSleep ==
    /\ upd.pc = "loop"
    /\ upd.queue = <<>>
    /\ upd' = [upd EXCEPT !.pc = "sleep"]
    /\ UNCHANGED <<store, now, last_time_checked, rew, applied, cred, scores, pin,
                   pout, org, life, crt, call, ret>>

\* after its sleep of 60 seconds, read_and_update_rewards reads the inactive
\* jobs and advances the checkpoint
RewardQuery ==
    /\ rew = <<>>
    /\ now > last_time_checked
    /\ rew' = InactiveQueue(store, 1, last_time_checked)
    /\ last_time_checked' = now
    /\ UNCHANGED <<store, now, upd, applied, cred, scores, pin, pout, org, life, crt,
                   call, ret>>

\* one turn of the while loop: update_scores unless computed_rewards is None
RewardApply ==
    /\ rew # <<>>
    /\ applied' = IF Head(rew).job.computed_rewards = None THEN applied
                  ELSE [applied EXCEPT ![Head(rew).id] = @ + 1]
    /\ scores' = IF Head(rew).job.computed_rewards = None THEN scores
                 ELSE UpdateScores(scores, Head(rew).job.computed_rewards[1],
                                   Head(rew).job.event.uids, 1)
    /\ rew' = Tail(rew)
    /\ UNCHANGED <<store, now, last_time_checked, upd, cred, pin, pout, org, life, crt,
                   call, ret>>

Init ==
    /\ SysInit
    /\ pin = <<>>
    /\ pout = None

Next ==
    \/ Tick
    \/ AddSyntheticJob
    \/ AddOrganicJob
    \/ UpdateJobsWake
    \/ UpdateJobsNoEnergies
    \/ UpdateJobsForward
    \/ UpdateJobWrite
    \/ UpdateJobsSleep
    \/ RewardQuery
    \/ RewardApply

Spec == Init /\ [][Next]_vars
----------------------------------------------------------------------------
(* The update loop over a queue of several ready jobs, with failures.      *)

\* number of ready jobs in the store
QueueJobs == 2

\* the responses of one worker in these cycles
QuietInputs ==
    {Dropped("timeout"), Checked(-40, NewWorkerProbability, -40, "valid")}

InitJobs ==
    /\ store = [j \in 1..QueueJobs |-> NewJob(j, FALSE, TRUE, FALSE, 0)]
    /\ now = 0
    /\ last_time_checked = 0
    /\ upd = [pc |-> "sleep", queue |-> <<>>, cur |-> None]
    /\ rew = <<>>
    /\ applied = [j \in 1..QueueJobs |-> 0]
    /\ cred = [u \in 1..SysUids |-> <<>>]
    /\ scores = [u \in 1..SysUids |-> 0]
    /\ org = NoOrganic
    /\ crt = NoChallenge
    /\ call = None
    /\ ret = None
    /\ life = Running
    /\ pin = <<>>
    /\ pout = None

UpdateJobsForwardQuiet == UpdateJobsForwardWith(QuietInputs)

\* forward raises for the job at the head of the queue (Protein.from_job, the
\* metagraph lookups of run_step, the pipeline): the except clause of update_jobs
\* is outside the for loop, so the rest of the snapshot is abandoned
UpdateJobsForwardRaises ==
    /\ upd.pc = "loop"
    /\ upd.queue # <<>>
    /\ upd' = [pc |-> "sleep", queue |-> <<>>, cur |-> None]
    /\ UNCHANGED <<store, now, last_time_checked, rew, applied, cred, scores, pin,
                   pout, org, life, crt, call, ret>>

\* update_job raises after job.update (the reward model, the upload of the
\* artifacts, the store write): the job is not written, the snapshot is abandoned
UpdateJobRaises ==
    /\ upd.pc = "write"
    /\ upd' = [pc |-> "sleep", queue |-> <<>>, cur |-> None]
    /\ UNCHANGED <<store, now, last_time_checked, rew, applied, cred, scores, pin,
                   pout, org, life, crt, call, ret>>

NextJobs ==
    \/ UpdateJobsWake
    \/ UpdateJobsNoEnergies
    \/ UpdateJobsForwardQuiet
    \/ UpdateJobsForwardRaises
    \/ UpdateJobWrite
    \/ UpdateJobRaises
    \/ UpdateJobsSleep

SpecJobs == InitJobs /\ [][NextJobs]_vars

----------------------------------------------------------------------------
(* The organic intake: the API process queues the requests and sends them   *)
(* through the pipe; the main process drains the pipe into its organic      *)
(* queue.                                                                   *)

\* number of job requests submitted to the API
MaxItems == 3

\* the orders in which the intake queue can be sampled until it is empty
Orders(s) == {t \in [1..Len(s) -> Range(s)] : Range(t) = Range(s)}

\* mutant: sampling does not take the items out of the intake queue
AfterDrainKeeps(intake) == intake

\* the intake queue after check_queue sampled it until is_empty()
AfterDrain(intake) == <<>>

\* for item in items: self._organic_queue.add(item), inside the try of the
\* while loop: the items before the first whose add raises
RECURSIVE Added(_)
Added(items) ==
    IF items = <<>> \/ ~Head(items).addable THEN <<>>
    ELSE <<Head(items)>> \o Added(Tail(items))

\* a request reaches the organic router, which adds it to the intake queue
Submit ==
    /\ org.submitted < MaxItems
    /\ \E addable \in BOOLEAN :
          org' = [org EXCEPT
                    !.submitted = @ + 1,
                    !.intake = Append(@, [id |-> org.submitted + 1,
                                          addable |-> addable])]
    /\ UNCHANGED <<store, now, last_time_checked, upd, rew, applied, cred, scores, pin,
                   pout, life, crt, call, ret>>

\* check_queue drains the intake queue and sends the batch through the pipe;
\* the bytes received may fail to deserialize
CheckQueue ==
    /\ org.intake # <<>>
    /\ \E items \in Orders(org.intake), corrupt \in BOOLEAN :
          org' = [org EXCEPT
                    !.intake = AfterDrain(org.intake),
                    !.pipe = Append(@, [items |-> items, corrupt |-> corrupt])]
    /\ UNCHANGED <<store, now, last_time_checked, upd, rew, applied, cred, scores, pin,
                   pout, life, crt, call, ret>>

\* check_queue drains the intake queue and the send raises: logged, dropped
CheckQueueSendFails ==
    /\ org.intake # <<>>
    /\ org' = [org EXCEPT !.intake = AfterDrain(org.intake),
                           !.send_errors = @ + 1]
    /\ UNCHANGED <<store, now, last_time_checked, upd, rew, applied, cred, scores, pin,
                   pout, life, crt, call, ret>>

\* _handle_organic_api_pipe polls the pipe, receives a batch and adds its items
HandleOrganicApiPipe ==
    /\ org.pipe # <<>>
    /\ org' = [org EXCEPT
                 !.pipe = Tail(@),
                 !.queue = IF Head(org.pipe).corrupt THEN @
                           ELSE @ \o Added(Head(org.pipe).items)]
    /\ UNCHANGED <<store, now, last_time_checked, upd, rew, applied, cred, scores, pin,
                   pout, life, crt, call, ret>>

InitOrganic ==
    /\ SysInit
    /\ pin = <<>>
    /\ pout = None

NextOrganic ==
    \/ Submit
    \/ CheckQueue
    \/ CheckQueueSendFails
    \/ HandleOrganicApiPipe

SpecOrganic == InitOrganic /\ [][NextOrganic]_vars

----------------------------------------------------------------------------
(* Shutdown: the loops, the monitor and main.  What an iteration of a loop   *)
(* does to the store, the registry and the queues is in the actions above;   *)
(* here an iteration is counted.                                            *)

\* number of iterations of one loop
MaxRuns == 1

\* a loop other than the monitor wakes from its sleep: each is a `while True`
\* that runs its body again
LoopWakes ==
    /\ ~life.stopped
    /\ \E l \in Loops \ {"monitor_validator"} :
          /\ life.runs[l] < MaxRuns
          /\ life' = [life EXCEPT !.runs[l] = @ + 1]
    /\ UNCHANGED <<store, now, last_time_checked, upd, rew, applied, cred, scores, pin,
                   pout, org, crt, call, ret>>

\* monitor_validator wakes from its sleep and sets should_exit when no job was
\* created for too long or the weights were not set for too long
MonitorValidator ==
    /\ ~life.stopped
    /\ life.runs["monitor_validator"] < MaxRuns
    /\ \E stale \in BOOLEAN :
          life' = [life EXCEPT !.runs["monitor_validator"] = @ + 1,
                               !.should_exit = @ \/ stale]
    /\ UNCHANGED <<store, now, last_time_checked, upd, rew, applied, cred, scores, pin,
                   pout, org, crt, call, ret>>

\* main wakes from its sleep of 30 seconds, finds should_exit set and leaves the
\* async with: __aexit__ stops the event loop
MainExits ==
    /\ ~life.stopped
    /\ ~life.is_running \/ life.should_exit
    /\ life' = IF life.is_running
               THEN [life EXCEPT !.should_exit = TRUE, !.is_running = FALSE,
                                 !.stopped = TRUE]
               ELSE life
    /\ life' # life
    /\ UNCHANGED <<store, now, last_time_checked, upd, rew, applied, cred, scores, pin,
                   pout, org, crt, call, ret>>

InitShutdown ==
    /\ SysInit
    /\ pin = <<>>
    /\ pout = None

NextShutdown ==
    \/ LoopWakes
    \/ MonitorValidator
    \/ MainExits

SpecShutdown == InitShutdown /\ [][NextShutdown]_vars

----------------------------------------------------------------------------
(* One update cycle seen from the registry and the scores: forward runs the *)
(* pipeline, update_job runs credibility_pipeline.                          *)

\* the responses of one worker in these cycles: every reason the audit can give
CredInputs ==
    {Dropped("timeout"),
     Checked(-40, NewWorkerProbability, -40, "valid"),
     [Checked(-40, NewWorkerProbability, -40, "valid") EXCEPT !.draw = 50],
     Checked(-40, NewWorkerProbability, 0, "invalid"),
     Checked(-40, NewWorkerProbability, 0, "state-checkpoint"),
     Checked(-40, NewWorkerProbability, -39, "valid")}

\* the credibility histories a worker can have before the cycle
CredHistories == {<<>>, <<0>>, <<1>>}

\* the scores a worker can have before the cycle
InitialScores == {0, 8}

\* a cycle of a job of a validator that has run earlier cycles
InitCredibility ==
    /\ store = <<>>
    /\ now = 0
    /\ last_time_checked = 0
    /\ upd = [pc |-> "sleep", queue |-> <<>>, cur |-> None]
    /\ rew = <<>>
    /\ applied = [j \in 1..MaxJobs |-> 0]
    /\ cred \in [1..SysUids -> CredHistories]
    /\ scores \in [1..SysUids -> InitialScores]
    /\ org = NoOrganic
    /\ crt = NoChallenge
    /\ call = None
    /\ ret = None
    /\ life = Running
    /\ pin \in [1..SysUids -> CredInputs]
    /\ pout = None

\* forward and the credibility part of update_job for the responses pin
UpdateJobCredibility ==
    /\ pout = None
    /\ LET out   == Pipeline(SysUidSeq, WithProbabilities(pin, cred))
           event == MergeEvent(EmptyEvent, SysUidSeq, out)
       IN  /\ pout' = Some(out)
           /\ cred' = IF Len(event.processed_uids) > 0
                      THEN CredibilityPipeline(cred, event.processed_uids,
                                               event.reason, 1)
                      ELSE cred
           /\ scores' = IF Len(event.processed_uids) > 0
                        THEN CredibilityScores(scores, event.processed_uids,
                                               event.reason, 1)
                        ELSE scores
    /\ UNCHANGED <<store, now, last_time_checked, upd, rew, applied, pin, org, life,
                   crt, call, ret>>

NextCredibility == UpdateJobCredibility

SpecCredibility == InitCredibility /\ [][NextCredibility]_vars

----------------------------------------------------------------------------
(* The update loop with workers that always give the same answer: the      *)
(* active flag of a job does not depend on what the workers answer.         *)

\* the response of every worker in these cycles
SteadyInputs == {Checked(-40, NewWorkerProbability, -40, "valid")}

UpdateJobsForwardSteady == UpdateJobsForwardWith(SteadyInputs)

\* the update loop, with its failures, over a store of several ready jobs
NextActive ==
    \/ UpdateJobsWake
    \/ UpdateJobsNoEnergies
    \/ UpdateJobsForwardSteady
    \/ UpdateJobsForwardRaises
    \/ UpdateJobWrite
    \/ UpdateJobRaises
    \/ UpdateJobsSleep

SpecActive == InitJobs /\ [][NextActive]_vars

----------------------------------------------------------------------------
(* Teardown: __aexit__ and the organic API process.                         *)

\* number of times __aexit__ is entered
MaxExits == 2

\* Process.is_alive(): the process was started and has not exited
IsAlive(proc) == proc = "alive"

\* mutant: the process is killed after the wait whether or not it is alive
KillNeededAlways(alive) == TRUE

\* if self._organic_api_process.is_alive(): after join(timeout=5)
KillNeeded(alive) == alive

\* the calls __aexit__ makes while is_running, in order, for a process that
\* exits within the join timeout (responsive) or not
TeardownCalls(proc, responsive) ==
    (IF proc = "none" THEN <<>>
     ELSE IF ~IsAlive(proc) THEN <<"is_alive:false">>
     ELSE <<"is_alive:true", "terminate", "join">>
          \o (IF responsive THEN <<"is_alive:false">> ELSE <<"is_alive:true">>)
          \o (IF KillNeeded(~responsive) THEN <<"kill">> ELSE <<>>))
    \o <<"pkill rqlited", "loop.stop">>

\* the validator after __aenter__, with the organic API enabled or not; the
\* process is started later, by the start_organic_api task
RunningWith(organic_enabled) ==
    [should_exit |-> FALSE, is_running |-> TRUE, stopped |-> FALSE,
     runs |-> [l \in Loops |-> 0], organic_enabled |-> organic_enabled,
     proc |-> "none", calls |-> <<>>, exits |-> 0]

\* start_organic_api starts the API process as a daemon
StartOrganicApi ==
    /\ ~life.stopped
    /\ life.organic_enabled
    /\ life.proc = "none"
    /\ life' = [life EXCEPT !.proc = "alive"]
    /\ UNCHANGED <<store, now, last_time_checked, upd, rew, applied, cred, scores, pin,
                   pout, org, crt, call, ret>>

\* the API process exits on its own
ProcessExits ==
    /\ life.proc = "alive"
    /\ life' = [life EXCEPT !.proc = "dead"]
    /\ UNCHANGED <<store, now, last_time_checked, upd, rew, applied, cred, scores, pin,
                   pout, org, crt, call, ret>>

\* __aexit__: main left the async with (should_exit was set, or an exception
\* went through it); a call while not is_running does nothing
Aexit ==
    /\ life.exits < MaxExits
    /\ \E responsive \in BOOLEAN :
          life' = IF life.is_running
                  THEN [life EXCEPT
                          !.should_exit = TRUE,
                          !.is_running = FALSE,
                          !.stopped = TRUE,
                          !.proc = IF IsAlive(@) THEN "dead" ELSE @,
                          !.calls = @ \o TeardownCalls(life.proc, responsive),
                          !.exits = @ + 1]
                  ELSE [life EXCEPT !.exits = @ + 1]
    /\ UNCHANGED <<store, now, last_time_checked, upd, rew, applied, cred, scores, pin,
                   pout, org, crt, call, ret>>

InitTeardown ==
    /\ store = <<>>
    /\ now = 0
    /\ last_time_checked = 0
    /\ upd = [pc |-> "sleep", queue |-> <<>>, cur |-> None]
    /\ rew = <<>>
    /\ applied = [j \in 1..MaxJobs |-> 0]
    /\ cred = [u \in 1..SysUids |-> <<>>]
    /\ scores = [u \in 1..SysUids |-> 0]
    /\ org = NoOrganic
    /\ crt = NoChallenge
    /\ call = None
    /\ ret = None
    /\ \E organic_enabled \in BOOLEAN : life = RunningWith(organic_enabled)
    /\ pin = <<>>
    /\ pout = None

NextTeardown ==
    \/ LoopWakes
    \/ MonitorValidator
    \/ StartOrganicApi
    \/ ProcessExits
    \/ Aexit

SpecTeardown == InitTeardown /\ [][NextTeardown]_vars

----------------------------------------------------------------------------
(* The liveness monitor against the clock.                                  *)

\* last hour of the clock of the monitor
MaxHours == 26

\* await asyncio.sleep(3600): the least time between two checks
MonitorSleep == 3600

\* the inactivity, in seconds, after which the monitor requests the exit
NoJobsLimit == 43200

SecondsPerDay == 86400

\* timedelta.seconds: the seconds of the normalised (days, seconds) pair
TimedeltaSeconds(delta) == delta % SecondsPerDay

\* (datetime.now() - self.last_time_created_jobs).seconds > 43200
NoJobsForTooLong(t, created) == TimedeltaSeconds(t - created) > NoJobsLimit

\* the validator after __aenter__: the last job creation is the construction
RunningAt(t) ==
    [should_exit |-> FALSE, is_running |-> TRUE, stopped |-> FALSE,
     runs |-> [l \in Loops |-> 0], last_time_created_jobs |-> t, woke |-> t]

\* an hour passes
HourPasses ==
    /\ now < MaxHours * MonitorSleep
    /\ now' = now + MonitorSleep
    /\ UNCHANGED <<store, last_time_checked, upd, rew, applied, cred, scores, pin,
                   pout, org, life, crt, call, ret>>

\* add_job uploaded a job: self.last_time_created_jobs = datetime.now()
JobCreated ==
    /\ ~life.stopped
    /\ life.last_time_created_jobs # now
    /\ life' = [life EXCEPT !.last_time_created_jobs = now]
    /\ UNCHANGED <<store, now, last_time_checked, upd, rew, applied, cred, scores, pin,
                   pout, org, crt, call, ret>>

\* monitor_validator wakes, no sooner than its sleep allows, and checks the
\* time since the last job creation and the blocks since the last weights
MonitorCheck ==
    /\ ~life.stopped
    /\ now >= life.woke + MonitorSleep
    /\ \E blocks_stale \in BOOLEAN :
          life' = [life EXCEPT
                     !.woke = now,
                     !.should_exit =
                         \/ @
                         \/ NoJobsForTooLong(now, life.last_time_created_jobs)
                         \/ blocks_stale]
    /\ UNCHANGED <<store, now, last_time_checked, upd, rew, applied, cred, scores, pin,
                   pout, org, crt, call, ret>>

InitMonitor ==
    /\ store = <<>>
    /\ now = 0
    /\ last_time_checked = 0
    /\ upd = [pc |-> "sleep", queue |-> <<>>, cur |-> None]
    /\ rew = <<>>
    /\ applied = [j \in 1..MaxJobs |-> 0]
    /\ cred = [u \in 1..SysUids |-> <<>>]
    /\ scores = [u \in 1..SysUids |-> 0]
    /\ org = NoOrganic
    /\ crt = NoChallenge
    /\ call = None
    /\ ret = None
    /\ life = RunningAt(0)
    /\ pin = <<>>
    /\ pout = None

NextMonitor ==
    \/ HourPasses
    \/ JobCreated
    \/ MonitorCheck
    \/ MainExits

SpecMonitor == InitMonitor /\ [][NextMonitor]_vars

----------------------------------------------------------------------------
(* Job creation: add_k_synthetic_jobs interleaved with the insertion of     *)
(* organic jobs.                                                            *)

\* number of jobs the store of the creation runs can hold
StoreJobs == 2

\* number of task ids (pdb ids) there are
NumPdbs == 3

\* create_new_challenge(self, exclude = exclude_pdbs): a task id not excluded
ChallengePdbs(exclude) == (1..NumPdbs) \ exclude

\* exclude_pdbs = self.store.get_all_pdbs(), then the await of
\* create_new_challenge
CreateChallenge ==
    /\ crt.pc = "idle"
    /\ Len(store) < StoreJobs
    /\ \E pdb \in ChallengePdbs(AllPdbs(store)) :
          crt' = [pc |-> "challenge", pdb |-> pdb]
    /\ UNCHANGED <<store, now, last_time_checked, upd, rew, applied, cred, scores, pin,
                   pout, org, life, call, ret>>

\* await self.add_job(job_event = job_event): the job is uploaded, or the
\* upload fails (here also when the store is full) and add_job returns False
AddChallengeJob ==
    /\ crt.pc = "challenge"
    /\ \E uploaded \in BOOLEAN :
          store' = IF uploaded /\ Len(store) < StoreJobs
                   THEN Append(store, NewJob(crt.pdb, FALSE, TRUE, FALSE, now))
                   ELSE store
    /\ crt' = NoChallenge
    /\ UNCHANGED <<now, last_time_checked, upd, rew, applied, cred, scores, pin, pout,
                   org, life, call, ret>>

\* the organic loop calls add_job for a request with a task id of the user's
AddOrganicJobQueued == AddOrganicJobWith(StoreJobs, 1..NumPdbs)

InitCreate ==
    /\ SysInit
    /\ pin = <<>>
    /\ pout = None

NextCreate ==
    \/ CreateChallenge
    \/ AddChallengeJob
    \/ AddOrganicJobQueued

SpecCreate == InitCreate /\ [][NextCreate]_vars

----------------------------------------------------------------------------
(* The API's table of protein jobs and the endpoint get_user_pdb_ids.       *)

\* largest number of rows of the first user in the table
MaxRows == 101

\* largest number of rows of the second user in the table
MaxOthers == 2

\* get_protein_jobs(user_id, limit = 100): the default of limit
DefaultLimit == 100

\* the users that have rows, and that are asked for
Users == {1, 2}

\* how the task ids of the first user's rows repeat
Patterns == {"same", "distinct", "pairs", "alternate"}

\* the task id of the i-th row of the first user
PdbOf(pattern, i) ==
    CASE pattern = "same" -> 1
      [] pattern = "distinct" -> i
      [] pattern = "pairs" -> (i + 1) \div 2
      [] pattern = "alternate" -> 1 + (i % 2)

\* the task id of the k-th row of the second user: none of the first user's
OtherPdbOf(k) == 1000 + k

\* the table after insert_protein_job for n rows of the first user and m of the
\* second, in the order of insertion, which is the order of created_at
TableOf(n, pattern, m) ==
    [i \in 1..(n + m) |->
        IF i <= n
        THEN [pdb_id |-> PdbOf(pattern, i), user_id |-> 1, created_at |-> i]
        ELSE [pdb_id |-> OtherPdbOf(i - n), user_id |-> 2, created_at |-> i]]

\* the numbers of rows of the first user: none, a few, and around the limit
RowCounts == {0, 1, 2, 3} \cup ((MaxRows - 2)..MaxRows)

Reverse(s) == [i \in 1..Len(s) |-> s[Len(s) + 1 - i]]

\* SELECT ... WHERE user_id = ?
RowsOfUser(table, user_id) ==
    LET OfUser(row) == row.user_id = user_id
    IN  SelectSeq(table, OfUser)

\* get_protein_jobs: WHERE user_id = ? ORDER BY created_at DESC LIMIT ?
GetProteinJobs(table, user_id, limit) ==
    LET rows == Reverse(RowsOfUser(table, user_id))
    IN  SubSeq(rows, 1, Min2(limit, Len(rows)))

\* list(set(...)) followed by sort(): the elements of a set in increasing
\* order, computed by halving the interval between the least and the greatest
RECURSIVE SortedList(_)
SortedList(S) ==
    IF S = {} THEN <<>>
    ELSE LET least == CHOOSE x \in S : \A y \in S : x <= y
             most  == CHOOSE x \in S : \A y \in S : y <= x
             mid   == (least + most) \div 2
         IN  IF least = most THEN <<least>>
             ELSE SortedList({x \in S : x <= mid}) \o SortedList({x \in S : x > mid})

\* get_user_pdb_ids: the response for the jobs get_protein_jobs returned
UserPDBResponse(user_id, jobs) ==
    LET pdb_ids == SortedList({jobs[i].pdb_id : i \in 1..Len(jobs)})
    IN  [user_id |-> user_id, pdb_ids |-> pdb_ids, total |-> Len(pdb_ids)]

\* GET /user/{user_id}/pdb-ids
GetUserPdbIds ==
    /\ call # None
    /\ ret = None
    /\ ret' = Some(UserPDBResponse(
                       call[1].user_id,
                       GetProteinJobs(call[1].table, call[1].user_id, DefaultLimit)))
    /\ UNCHANGED <<store, now, last_time_checked, upd, rew, applied, cred, scores, pin,
                   pout, org, life, crt, call>>

InitPdbIds ==
    /\ store = <<>>
    /\ now = 0
    /\ last_time_checked = 0
    /\ upd = [pc |-> "sleep", queue |-> <<>>, cur |-> None]
    /\ rew = <<>>
    /\ applied = [j \in 1..MaxJobs |-> 0]
    /\ cred = [u \in 1..SysUids |-> <<>>]
    /\ scores = [u \in 1..SysUids |-> 0]
    /\ org = NoOrganic
    /\ life = Running
    /\ crt = NoChallenge
    /\ pin = <<>>
    /\ pout = None
    /\ \E n \in RowCounts, pattern \in Patterns, m \in 0..MaxOthers, user_id \in Users :
          call = Some([user_id |-> user_id, table |-> TableOf(n, pattern, m)])
    /\ ret = None

NextPdbIds == GetUserPdbIds

SpecPdbIds == InitPdbIds /\ [][NextPdbIds]_vars

----------------------------------------------------------------------------
(* folding/utils/uids.py: the choice of the uids to query.                  *)

\* metagraph.n: the uids are 0..NumUids - 1
NumUids == 3

\* largest number of uids asked for
MaxK == 4

\* config.neuron.vpermit_tao_limit
VpermitTaoLimit == 1024

MetagraphUids == 0..(NumUids - 1)

\* mutant: a stake equal to the limit makes the uid unavailable
CheckUidAvailabilityBelow(metagraph, uid, vpermit_tao_limit) ==
    IF ~metagraph.is_serving[uid] THEN FALSE
    ELSE IF metagraph.S[uid] >= vpermit_tao_limit THEN FALSE
    ELSE TRUE

\* check_uid_availability, with include_serving_in_check at its default
CheckUidAvailability(metagraph, uid, vpermit_tao_limit) ==
    IF ~metagraph.is_serving[uid] THEN FALSE
    ELSE IF metagraph.S[uid] > vpermit_tao_limit THEN FALSE
    ELSE TRUE

\* uid_is_not_excluded = exclude is None or uid not in exclude
NotExcluded(uid, exclude) == exclude = None \/ uid \notin exclude[1]

\* candidate_uids after the loop over range(metagraph.n)
CandidateUids(metagraph, exclude) ==
    {uid \in MetagraphUids :
        /\ CheckUidAvailability(metagraph, uid, VpermitTaoLimit)
        /\ NotExcluded(uid, exclude)}

\* random.sample(population, k): the lists of k distinct elements
RandomSamples(population, k) ==
    {s \in [1..k -> population] : \A i, j \in 1..k : i # j => s[i] # s[j]}

\* get_random_uids(self, k, exclude): the lists it can return
GetRandomUidsResults(metagraph, k, exclude) ==
    LET available_uids == CandidateUids(metagraph, exclude)
        k2 == IF Cardinality(available_uids) < k
              THEN Cardinality(available_uids) ELSE k
    IN  RandomSamples(available_uids, k2)

GetRandomUids ==
    /\ call # None
    /\ ret = None
    /\ \E uids \in GetRandomUidsResults(call[1].metagraph, call[1].k, call[1].exclude) :
          ret' = Some(uids)
    /\ UNCHANGED <<store, now, last_time_checked, upd, rew, applied, cred, scores, pin,
                   pout, org, life, crt, call>>

\* the metagraphs: every uid serving or not, with a stake at or above the limit
Metagraphs ==
    {[is_serving |-> s, S |-> t] :
        s \in [MetagraphUids -> BOOLEAN],
        t \in [MetagraphUids -> {VpermitTaoLimit, VpermitTaoLimit + 1}]}

InitUids ==
    /\ store = <<>>
    /\ now = 0
    /\ last_time_checked = 0
    /\ upd = [pc |-> "sleep", queue |-> <<>>, cur |-> None]
    /\ rew = <<>>
    /\ applied = [j \in 1..MaxJobs |-> 0]
    /\ cred = [u \in 1..SysUids |-> <<>>]
    /\ scores = [u \in 1..SysUids |-> 0]
    /\ org = NoOrganic
    /\ life = Running
    /\ crt = NoChallenge
    /\ pin = <<>>
    /\ pout = None
    /\ \E metagraph \in Metagraphs, k \in 0..MaxK,
          exclude \in {None} \cup {Some(e) : e \in SUBSET MetagraphUids} :
          call = Some([metagraph |-> metagraph, k |-> k, exclude |-> exclude])
    /\ ret = None

NextUids == GetRandomUids

SpecUids == InitUids /\ [][NextUids]_vars

----------------------------------------------------------------------------
(* Two consecutive cycles of run_step: the uids to query are read from the  *)
(* metagraph in every cycle.                                               *)

\* mutant: a uid that is not serving is left out
CheckStakeAndServing(metagraph, uid, vpermit_tao_limit) ==
    IF ~metagraph.is_serving[uid] THEN FALSE
    ELSE IF metagraph.S[uid] > vpermit_tao_limit THEN FALSE
    ELSE TRUE

\* check_uid_availability with include_serving_in_check = False
CheckStakeOnly(metagraph, uid, vpermit_tao_limit) ==
    IF metagraph.S[uid] > vpermit_tao_limit THEN FALSE ELSE TRUE

\* get_all_miner_uids(metagraph, limit, include_serving_in_check=False): the
\* candidate uids from uid on, in ascending order
RECURSIVE GetAllMinerUids(_, _)
GetAllMinerUids(metagraph, uid) ==
    IF uid >= NumUids THEN <<>>
    ELSE (IF CheckStakeOnly(metagraph, uid, VpermitTaoLimit) THEN <<uid>> ELSE <<>>)
         \o GetAllMinerUids(metagraph, uid + 1)

\* what a worker can answer in these cycles: no answer in time, and when it
\* is serving also an answer the static pass cannot process or an answer that
\* is audited and found valid
CycleInputs(serving) ==
    IF serving
    THEN {Dropped("timeout"), Dropped("noproc"),
          Checked(-40, NewWorkerProbability, -40, "valid")}
    ELSE {Dropped("timeout")}

\* the metagraphs of these cycles: the stake of uid 0 is at or above the limit,
\* uid 1 is serving or not
CycleMetagraphs ==
    {[is_serving |-> [u \in MetagraphUids |-> IF u = 1 THEN b ELSE TRUE],
      S |-> [u \in MetagraphUids |->
                IF u = 0 THEN s ELSE VpermitTaoLimit]] :
        s \in {VpermitTaoLimit, VpermitTaoLimit + 1}, b \in BOOLEAN}

\* sync_loop: the metagraph is read again from the network
SyncLoop ==
    /\ call # None
    /\ \E metagraph \in CycleMetagraphs : call' = Some([metagraph |-> metagraph])
    /\ UNCHANGED <<store, now, last_time_checked, upd, rew, applied, cred, scores, pin,
                   pout, org, life, crt, ret>>

\* run_step and the credibility part of update_job, for the first cycle of a
\* job and for the next one; ret holds the uids that were queried
RunStepCycle ==
    /\ call # None
    /\ ret # None
    /\ ret[1].cycle # "next"
    /\ LET uids == GetAllMinerUids(call[1].metagraph, 0)
       IN  \E x \in {y \in [Range(uids) -> CycleInputs(TRUE)] :
                      \A u \in Range(uids) :
                          y[u] \in CycleInputs(call[1].metagraph.is_serving[u])} :
             LET inp == [u \in Range(uids) |->
                           [x[u] EXCEPT !.vp = ValidationProbability(cred[u])]]
                 out == Pipeline(uids, inp)
                 event == MergeEvent(EmptyEvent, uids, out)
             IN  /\ pin' = inp
                 /\ pout' = Some(out)
                 /\ cred' = IF Len(event.processed_uids) > 0
                            THEN CredibilityPipeline(cred, event.processed_uids,
                                                     event.reason, 1)
                            ELSE cred
                 /\ ret' = Some([cycle |-> IF ret[1].cycle = "none" THEN "first"
                                           ELSE "next",
                                 uids |-> uids])
    /\ UNCHANGED <<store, now, last_time_checked, upd, rew, applied, scores, org, life,
                   crt, call>>

InitCycles ==
    /\ store = <<>>
    /\ now = 0
    /\ last_time_checked = 0
    /\ upd = [pc |-> "sleep", queue |-> <<>>, cur |-> None]
    /\ rew = <<>>
    /\ applied = [j \in 1..MaxJobs |-> 0]
    /\ cred = [u \in MetagraphUids |-> <<>>]
    /\ scores = [u \in MetagraphUids |-> 0]
    /\ org = NoOrganic
    /\ life = Running
    /\ crt = NoChallenge
    /\ pin = <<>>
    /\ pout = None
    /\ \E metagraph \in CycleMetagraphs : call = Some([metagraph |-> metagraph])
    /\ ret = Some([cycle |-> "none", uids |-> <<>>])

NextCycles ==
    \/ SyncLoop
    \/ RunStepCycle

SpecCycles == InitCycles /\ [][NextCycles]_vars

----------------------------------------------------------------------------
(* The logs of the registry over the cycles of two jobs: the registry is    *)
(* one object of the validator, handed to every run of the pipeline.        *)

\* what a worker can answer in these runs
LogInputs ==
    {Dropped("timeout"),
     Checked(-40, NewWorkerProbability, -40, "valid"),
     Checked(-39, NewWorkerProbability, -39, "valid"),
     Checked(-40, NewWorkerProbability, 0, "invalid")}

\* the phase after one more run
NextPhase(phase) == IF phase = "none" THEN "first" ELSE "next"

\* the pipeline runs to its return statement: reset_miner_logs is called
RunPipelineReturns ==
    /\ ret # None
    /\ ret[1].phase # "next"
    /\ \E inp \in [1..SysUids -> LogInputs] :
          LET out == PipelineOn(ret[1].logs, SysUidSeq, inp)
          IN  /\ pin' = inp
              /\ pout' = Some([energies |-> out.energies, event |-> out.event,
                               count |-> out.count, validated |-> out.validated])
              /\ ret' = Some([phase |-> NextPhase(ret[1].phase),
                              logs |-> ResetMinerLogs(SysUidSeq)])
    /\ UNCHANGED <<store, now, last_time_checked, upd, rew, applied, cred, scores, org,
                   life, crt, call>>

\* an exception leaves the pipeline from a statement that is in no try block,
\* the sort of the logs or the assembly of the event and the energies: the
\* pipeline returns nothing and the except clause of update_jobs logs the error
RunPipelineRaises ==
    /\ ret # None
    /\ ret[1].phase # "next"
    /\ \E inp \in [1..SysUids -> LogInputs], at \in {"sort", "event"} :
          LET out == PipelineOn(ret[1].logs, SysUidSeq, inp)
          IN  /\ pin' = inp
              /\ pout' = None
              /\ ret' = Some([phase |-> NextPhase(ret[1].phase),
                              logs |-> IF at = "sort" THEN out.evaluated
                                       ELSE out.logs])
    /\ UNCHANGED <<store, now, last_time_checked, upd, rew, applied, cred, scores, org,
                   life, crt, call>>

InitLogs ==
    /\ store = <<>>
    /\ now = 0
    /\ last_time_checked = 0
    /\ upd = [pc |-> "sleep", queue |-> <<>>, cur |-> None]
    /\ rew = <<>>
    /\ applied = [j \in 1..MaxJobs |-> 0]
    /\ cred = [u \in 1..SysUids |-> <<>>]
    /\ scores = [u \in 1..SysUids |-> 0]
    /\ org = NoOrganic
    /\ life = Running
    /\ crt = NoChallenge
    /\ call = None
    /\ pin = <<>>
    /\ pout = None
    /\ ret = Some([phase |-> "none", logs |-> ResetMinerLogs(SysUidSeq)])

NextLogs ==
    \/ RunPipelineReturns
    \/ RunPipelineRaises

SpecLogs == InitLogs /\ [][NextLogs]_vars

----------------------------------------------------------------------------
(* add_job in detail: the organic setup, the insertion, the value returned  *)
(* and the fields of the validator it assigns.                              *)

\* the values config.protein.input_source and job_event["source"] can have
InputSources == {"rcsb", "pdbe"}

\* how the organic setup of add_job can go: it succeeds, setup_simulation
\* raises, the timeout of 600 seconds expires, protein.init_energy is positive,
\* or handler.put raises during the upload of the input files
SetupOutcomes == {"ok", "raises", "timeout", "positive_energy", "upload_fails"}

\* how the insertion can go: the store confirms with a job_id, upload_job
\* raises, confirm_upload raises, confirm_upload returns None
UploadOutcomes == {"ok", "raises", "unconfirmed", "null_id"}

\* a job event as add_job receives it
JobEvent(pdb, organic, source) ==
    [pdb_id |-> pdb, is_organic |-> organic, source |-> source, active |-> TRUE,
     failed |-> FALSE, job_id |-> None]

\* the validator after __aenter__ at time t, with the configured input source
ValidatorAt(t, source) ==
    [should_exit |-> FALSE, is_running |-> TRUE, stopped |-> FALSE,
     runs |-> [l \in Loops |-> 0], last_time_created_jobs |-> t,
     input_source |-> source]

\* mutant: a positive initial energy is logged but the job stays active
OrganicSetupIgnoresEnergy(job_event, setup) ==
    IF setup \in {"raises", "timeout", "upload_fails"}
    THEN [job_event EXCEPT !.active = FALSE, !.failed = TRUE]
    ELSE job_event

\* the try block of the organic branch: every failure sets active to False and
\* failed to True in the event
OrganicSetup(job_event, setup) ==
    IF setup \in {"raises", "timeout"}
    THEN [job_event EXCEPT !.active = FALSE, !.failed = TRUE]
    ELSE IF setup = "positive_energy"
    THEN [job_event EXCEPT !.active = FALSE, !.failed = TRUE]
    ELSE IF setup = "upload_fails"
    THEN [job_event EXCEPT !.active = FALSE, !.failed = TRUE]
    ELSE job_event

\* hasattr(job_event, "job_id"): job_event is a dict, and the keys of a dict
\* are not attributes of it
HasAttrJobId(job_event) == FALSE

\* add_job(job_event) at time t on the store st and the validator v: the event
\* and the value returned, the store and the validator afterwards
AddJob(job_event, st, v, t, setup, upload) ==
    LET organic == job_event.is_organic
        v1  == IF organic THEN [v EXCEPT !.input_source = job_event.source] ELSE v
        ev1 == IF organic THEN OrganicSetup(job_event, setup) ELSE job_event
        st1 == IF upload = "raises" THEN st
               ELSE Append(st, NewJob(ev1.pdb_id, ev1.is_organic, ev1.active,
                                      ev1.failed, t))
        job_id == IF upload = "ok" THEN Some(Len(st1)) ELSE None
        raised == \/ upload \in {"raises", "unconfirmed"}
                  \/ (HasAttrJobId(ev1) /\ job_id = None)
    IN  [event |-> [ev1 EXCEPT !.job_id = IF raised THEN None ELSE job_id],
         returned |-> ~raised,
         store |-> st1,
         validator |-> IF raised THEN v1
                       ELSE [v1 EXCEPT !.last_time_created_jobs = t]]

\* a call of add_job; ret keeps the event, how the call went and what it
\* returned
AddJobCall(organic, sources, setups, uploads) ==
    /\ Len(store) < StoreJobs
    /\ \E source \in sources, setup \in setups, upload \in uploads :
          LET out == AddJob(JobEvent(Len(store) + 1, organic, source), store, life,
                            now, setup, upload)
          IN  /\ store' = out.store
              /\ life' = out.validator
              /\ ret' = Some([event |-> out.event, returned |-> out.returned,
                              setup |-> setup, upload |-> upload])
    /\ UNCHANGED <<now, last_time_checked, upd, rew, applied, cred, scores, pin, pout,
                   org, crt, call>>

\* the organic loop adds the job of a request
AddJobOrganic == AddJobCall(TRUE, InputSources, SetupOutcomes, UploadOutcomes)

\* add_k_synthetic_jobs adds a job made by create_new_challenge from the
\* configured input source
AddJobSynthetic ==
    /\ Len(store) < StoreJobs
    /\ \E upload \in UploadOutcomes :
          LET out == AddJob(JobEvent(Len(store) + 1, FALSE, life.input_source),
                            store, life, now, "ok", upload)
          IN  /\ store' = out.store
              /\ life' = out.validator
              /\ ret' = Some([event |-> out.event, returned |-> out.returned,
                              setup |-> "ok", upload |-> upload])
    /\ UNCHANGED <<now, last_time_checked, upd, rew, applied, cred, scores, pin, pout,
                   org, crt, call>>

InitAddJob ==
    /\ store = <<>>
    /\ now = 0
    /\ last_time_checked = 0
    /\ upd = [pc |-> "sleep", queue |-> <<>>, cur |-> None]
    /\ rew = <<>>
    /\ applied = [j \in 1..StoreJobs |-> 0]
    /\ cred = [u \in 1..SysUids |-> <<>>]
    /\ scores = [u \in 1..SysUids |-> 0]
    /\ org = NoOrganic
    /\ crt = NoChallenge
    /\ call = None
    /\ ret = None
    /\ life = ValidatorAt(0, "rcsb")
    /\ pin = <<>>
    /\ pout = None

NextAddJob ==
    \/ Tick
    \/ AddJobOrganic
    \/ AddJobSynthetic

SpecAddJob == InitAddJob /\ [][NextAddJob]_vars

----------------------------------------------------------------------------
(* The update loop next to the insertion of jobs: which stored jobs it      *)
(* reads and queries.                                                      *)

\* the organic loop adds the job of a request; the store takes the job or
\* upload_job raises
AddJobOrganicStored == AddJobCall(TRUE, {"rcsb"}, SetupOutcomes, {"ok", "raises"})

NextDispatch ==
    \/ AddJobOrganicStored
    \/ UpdateJobsWake
    \/ UpdateJobsNoEnergies
    \/ UpdateJobsForwardSteady
    \/ UpdateJobWrite
    \/ UpdateJobsSleep

SpecDispatch == InitAddJob /\ [][NextDispatch]_vars

----------------------------------------------------------------------------
(* The iterations of create_synthetic_jobs: the size of the queue is read,  *)
(* then add_k_synthetic_jobs creates the jobs that are missing.             *)

\* store.get_queue(ready = False).qsize(): the number of active jobs
NotReadyQueueSize(st) == Cardinality({j \in 1..Len(st) : st[j].active})

\* the creation loop before its first iteration, with config.neuron.queue_size
\* and sample_size; n, k, ii and attempted are those of the last iteration
CreationLoop(queue_size, sample_size) ==
    [pc |-> "sleep", queue_size |-> queue_size, sample_size |-> sample_size,
     ran |-> FALSE, n |-> 0, k |-> 0, ii |-> 0, attempted |-> 0, pdb |-> 0]

\* sample_size * queue_size > metagraph.n: the iteration raises a ValueError
TooManyUidsNeeded(sample_size, queue_size) == sample_size * queue_size > NumUids

\* an iteration of create_synthetic_jobs starts: it reads the size of the queue
\* and either calls add_k_synthetic_jobs, raises, or goes back to sleep
CreateSyntheticJobs ==
    /\ crt.pc = "sleep"
    /\ LET n == NotReadyQueueSize(store)
           started == [crt EXCEPT !.ran = TRUE, !.n = n, !.k = 0, !.ii = 0,
                                  !.attempted = 0]
       IN  crt' = IF n < crt.queue_size
                     /\ ~TooManyUidsNeeded(crt.sample_size, crt.queue_size)
                  THEN [started EXCEPT !.pc = "create", !.k = crt.queue_size - n]
                  ELSE started
    /\ UNCHANGED <<store, now, last_time_checked, upd, rew, applied, cred, scores, pin,
                   pout, org, life, call, ret>>

\* for ii in range(k): create_new_challenge gives a task id that is not in the
\* store, or raises, which ends add_k_synthetic_jobs and the iteration
NewChallenge ==
    /\ crt.pc = "create"
    /\ \/ \E pdb \in ChallengePdbs(AllPdbs(store)) :
             crt' = [crt EXCEPT !.pc = "add", !.pdb = pdb,
                                !.attempted = crt.attempted + 1]
       \/ crt' = [crt EXCEPT !.pc = "sleep", !.attempted = crt.attempted + 1]
    /\ UNCHANGED <<store, now, last_time_checked, upd, rew, applied, cred, scores, pin,
                   pout, org, life, call, ret>>

\* await self.add_job(job_event = job_event), whatever it returns, and the
\* next round of the for loop
AddNewChallenge ==
    /\ crt.pc = "add"
    /\ \E upload \in UploadOutcomes :
          LET out == AddJob(JobEvent(crt.pdb, FALSE, life.input_source), store, life,
                            now, "ok", upload)
          IN  /\ store' = out.store
              /\ life' = out.validator
    /\ crt' = [crt EXCEPT !.ii = crt.ii + 1,
                          !.pc = IF crt.ii + 1 < crt.k THEN "create" ELSE "sleep"]
    /\ UNCHANGED <<now, last_time_checked, upd, rew, applied, cred, scores, pin, pout,
                   org, call, ret>>

InitSynthetic ==
    /\ store = <<>>
    /\ now = 0
    /\ last_time_checked = 0
    /\ upd = [pc |-> "sleep", queue |-> <<>>, cur |-> None]
    /\ rew = <<>>
    /\ applied = [j \in 1..StoreJobs |-> 0]
    /\ cred = [u \in 1..SysUids |-> <<>>]
    /\ scores = [u \in 1..SysUids |-> 0]
    /\ org = NoOrganic
    /\ \E queue_size \in 1..StoreJobs, sample_size \in 1..SysUids :
          crt = CreationLoop(queue_size, sample_size)
    /\ call = None
    /\ ret = None
    /\ life = ValidatorAt(0, "rcsb")
    /\ pin = <<>>
    /\ pout = None

NextSynthetic ==
    \/ CreateSyntheticJobs
    \/ NewChallenge
    \/ AddNewChallenge

SpecSynthetic == InitSynthetic /\ [][NextSynthetic]_vars

----------------------------------------------------------------------------
(* Properties of a run of the pipeline (SpecPipeline).                     *)

\* the positions of the event whose worker is marked valid and not duplicate
ValidUnique(event) ==
    {i \in 1..Len(event.processed_uids) :
        event.is_valid[i] /\ ~event.is_duplicate[i]}

NonZero(energies) == {i \in 1..Len(energies) : energies[i] # 0}

\* the value the audit loop compares with the reported energy of uid u
Recomputed(u) ==
    IF Audited(pin[u].draw, pin[u].vp) THEN pin[u].val_median ELSE pin[u].reported

\* C2: in every run of the pipeline, at most TOP_K workers of the output are
\* marked valid and not duplicate, and at most TOP_K returned energies are
\* non-zero.
C2_AtMostTopK ==
    pout # None =>
        /\ Cardinality(ValidUnique(pout[1].event)) <= TOP_K
        /\ Cardinality(NonZero(pout[1].energies)) <= TOP_K

\* a run with more than TOP_K workers that stopped at the TOP_K-th unique valid
\* outcome and left a processable worker unscanned
C2_Witness ==
    /\ pout # None
    /\ Len(pin) > TOP_K
    /\ Cardinality(ValidUnique(pout[1].event)) = TOP_K
    /\ Cardinality(NonZero(pout[1].energies)) = TOP_K
    /\ \E u \in 1..Len(pin) :
          /\ pin[u].status = "ok"
          /\ pin[u].reported # 0
          /\ Recomputed(u) # 0
          /\ u \notin Range(pout[1].event.processed_uids)

\* C10: a scanned worker whose recomputed value is non-zero and whose percentage
\* difference to the reported value equals ANOMALY_THRESHOLD (or is below it)
\* stays valid and does not get the energy-difference reason; with a difference
\* strictly above the threshold it is invalid with the energy-difference reason.
C10_AnomalyBoundary ==
    pout # None =>
        \A i \in 1..Len(pout[1].event.processed_uids) :
            LET u == pout[1].event.processed_uids[i]
                r == pin[u].reported
                m == Recomputed(u)
            IN  m # 0 =>
                  /\ Abs(m - r) * 100 <= ANOMALY_THRESHOLD * Abs(r) =>
                        /\ pout[1].event.is_valid[i]
                        /\ pout[1].event.reason[i] # "energy_difference_too_large"
                  /\ Abs(m - r) * 100 > ANOMALY_THRESHOLD * Abs(r) =>
                        /\ ~pout[1].event.is_valid[i]
                        /\ pout[1].event.reason[i] = "energy_difference_too_large"

\* a worker audited exactly at the threshold, kept valid and counted, next to a
\* worker just above the threshold, marked invalid
C10_Witness ==
    /\ pout # None
    /\ \E i, k \in 1..Len(pout[1].event.processed_uids) :
          LET u == pout[1].event.processed_uids[i]
              w == pout[1].event.processed_uids[k]
          IN  /\ Recomputed(u) # pin[u].reported
              /\ Abs(Recomputed(u) - pin[u].reported) * 100
                    = ANOMALY_THRESHOLD * Abs(pin[u].reported)
              /\ pout[1].event.is_valid[i]
              /\ pout[1].energies[u] = Recomputed(u)
              /\ Recomputed(w) # 0
              /\ Abs(Recomputed(w) - pin[w].reported) * 100
                    > ANOMALY_THRESHOLD * Abs(pin[w].reported)
              /\ ~pout[1].event.is_valid[k]
              /\ pout[1].energies[w] = 0
----------------------------------------------------------------------------
(* Properties of the scheduler loops (Spec).                               *)

\* the job the update loop has in hand between job.update and the store write
InHand == upd.cur[1]

\* the uid at position i of the in-hand job's cycle
UidAt(i) == InHand.job.event.uids[i]

\* uid u was scanned in the event and marked valid and not duplicate
MarkedValidUnique(event, u) ==
    \E i \in 1..Len(event.processed_uids) :
        /\ event.processed_uids[i] = u
        /\ i <= Len(event.is_valid) /\ event.is_valid[i]
        /\ i <= Len(event.is_duplicate) /\ ~event.is_duplicate[i]

\* C1: every job of the store with active = false has computed_rewards set.
C1_InactiveHasRewards ==
    \A j \in 1..Len(store) :
        ~store[j].active => store[j].computed_rewards # None

\* job j is finalized with rewards and no later query of the reward loop can
\* return it: its timestamp is before the checkpoint and it is not pending
PastCheckpoint(j) ==
    /\ ~store[j].active
    /\ store[j].computed_rewards # None
    /\ store[j].updated_at < last_time_checked
    /\ \A k \in 1..Len(rew) : rew[k].id # j
    /\ upd.queue = <<>> /\ upd.cur = None

\* C3: the rewards of every job that became inactive with computed_rewards set
\* are applied exactly once: never twice, and not left out once the checkpoint
\* of the reward loop has passed the job.
C3_RewardedExactlyOnce ==
    \A j \in 1..Len(store) :
        /\ applied[j] <= 1
        /\ PastCheckpoint(j) => applied[j] = 1

\* C4: the (loss, hotkey) pair update_job passes to job.update belongs to a
\* worker marked valid and not duplicate in the cycle.
C4_BestIsValidated ==
    upd.pc = "write" =>
        MarkedValidUnique(InHand.job.event, UidAt(InHand.best_index))

\* C5: in every step, the best_loss of a stored job does not increase, and its
\* best_hotkey changes only when best_loss strictly decreases.
C5_BestLossMonotone ==
    [][\A j \in 1..Len(store) :
          /\ store'[j].best_loss <= store[j].best_loss
          /\ store'[j].best_hotkey # store[j].best_hotkey
                => store'[j].best_loss < store[j].best_loss]_vars

\* a job whose second cycle was worse than its stored best, which it kept
C5_Witness ==
    \E j \in 1..Len(store) :
        /\ store[j].updated_count = 2
        /\ store[j].best_loss = -40
        /\ store[j].best_hotkey # 0
        /\ \A i \in 1..Len(store[j].event.energies) :
              store[j].event.energies[i] > -40

\* the per-worker arrays of an event, as lengths
ArrayLengths(event) ==
    {Len(event.uids), Len(event.energies), Len(event.processed_uids),
     Len(event.is_valid), Len(event.is_duplicate), Len(event.reason),
     Len(event.files)}

\* C6: after an update cycle, every per-worker array of job.event has the
\* length of job.hotkeys and position i of each refers to the worker of
\* job.hotkeys[i].
C6_ArraysAligned ==
    \A j \in 1..Len(store) :
        store[j].updated_count > 0 =>
            /\ ArrayLengths(store[j].event) = {Len(store[j].hotkeys)}
            /\ \A i \in 1..Len(store[j].hotkeys) :
                  /\ HotkeyOf(store[j].event.uids[i]) = store[j].hotkeys[i]
                  /\ HotkeyOf(store[j].event.processed_uids[i]) = store[j].hotkeys[i]

AllTimedOut == \A u \in 1..SysUids : InHand.status[u] = "timeout"

\* C7: when every queried worker timed out, the cycle's energies are empty, the
\* job stays active unless its lifetime is exceeded, and best_loss is unchanged.
C7_AllTimeouts ==
    (upd.pc = "write" /\ AllTimedOut) =>
        /\ InHand.job.event.energies = <<>>
        /\ (InHand.job.active \/ InHand.expired)
        /\ InHand.job.best_loss = store[InHand.id].best_loss

\* C8: with a negative stored best_loss and all-zero energies, update_job
\* applies the reward model (computed_rewards is its output, not the zero
\* vector of the skip path) and the stored best_loss is the one it decides on.
C8_HistoricalBestRewarded ==
    (/\ upd.pc = "write"
     /\ store[InHand.id].best_loss < 0
     /\ AllZero(InHand.job.event.energies)) =>
        /\ InHand.apply_pipeline
        /\ InHand.job.best_loss = store[InHand.id].best_loss
        /\ InHand.job.computed_rewards
              = Some(RewardModel(InHand.job.event.energies, InHand.job))
        /\ InHand.job.computed_rewards # Some(Zeros(Len(InHand.job.hotkeys)))

\* a job with best_loss -40 from an earlier cycle in a cycle of all-zero energies
C8_Witness ==
    /\ upd.pc = "write"
    /\ store[InHand.id].best_loss = -40
    /\ store[InHand.id].updated_count = 1
    /\ AllZero(InHand.job.event.energies)
    /\ InHand.apply_pipeline

\* C9: with all-zero energies and a best_loss that never was negative,
\* update_job does not apply the reward model and computed_rewards is the zero
\* vector with one entry per worker of the cycle.
C9_NoBestNoRewards ==
    (/\ upd.pc = "write"
     /\ store[InHand.id].best_loss >= 0
     /\ AllZero(InHand.job.event.energies)) =>
        /\ ~InHand.apply_pipeline
        /\ InHand.job.computed_rewards = Some(Zeros(Len(InHand.job.hotkeys)))
        /\ Len(InHand.job.hotkeys) = Len(InHand.job.event.uids)
        /\ Len(InHand.job.hotkeys) = SysUids

\* a cycle of all-zero energies, one worker scanned and found invalid, on a job
\* without a negative best_loss
C9_Witness ==
    /\ upd.pc = "write"
    /\ store[InHand.id].best_loss >= 0
    /\ AllZero(InHand.job.event.energies)
    /\ Len(InHand.job.event.processed_uids) = 1
    /\ InHand.job.computed_rewards = Some(Zeros(SysUids))

----------------------------------------------------------------------------
(* Further properties of a run of the pipeline (SpecPipeline).             *)

\* the uid at position i of the returned event
ProcessedAt(i) == pout[1].event.processed_uids[i]

\* the positions before i whose worker was accepted as unique
UniqueBefore(i) == {k \in ValidUnique(pout[1].event) : k < i}

\* the value of position i is closer than d to a unique value accepted before it
CloserThan(i, d) ==
    \E k \in UniqueBefore(i) :
        Abs(Recomputed(ProcessedAt(i)) - Recomputed(ProcessedAt(k))) < d

\* C11: a valid worker is flagged is_duplicate exactly when its value is
\* strictly closer than DIFFERENCE_THRESHOLD to a unique value accepted before
\* it; at a distance of the threshold or more from all of them it is not.
C11_DuplicateBoundary ==
    pout # None =>
        \A i \in 1..Len(pout[1].event.processed_uids) :
            pout[1].event.is_valid[i] =>
                (pout[1].event.is_duplicate[i] <=> CloserThan(i, DIFFERENCE_THRESHOLD))

\* a run with a worker exactly DIFFERENCE_THRESHOLD from an accepted value and
\* accepted as unique, and a worker one closer flagged as duplicate
C11_Witness ==
    /\ pout # None
    /\ \E i \in ValidUnique(pout[1].event) :
          /\ CloserThan(i, DIFFERENCE_THRESHOLD + 1)
          /\ ~CloserThan(i, DIFFERENCE_THRESHOLD)
    /\ \E i \in 1..Len(pout[1].event.processed_uids) :
          /\ pout[1].event.is_valid[i]
          /\ pout[1].event.is_duplicate[i]
          /\ ~CloserThan(i, DIFFERENCE_THRESHOLD - 1)

\* the workers that passed the static pass, in rank order
Ranked ==
    SelectSeq(SortUids(UidsOf(pin), Evaluate(UidsOf(pin), pin)),
              LAMBDA u : CanProcess(pin[u]))

\* the audit of worker u comes back with a usable value: no failure, no anomaly
YieldsValid(u) ==
    /\ pin[u].reported # 0
    /\ Recomputed(u) # 0
    /\ ~(Audited(pin[u].draw, pin[u].vp) /\ pin[u].val_reason = "raise")
    /\ Abs(Recomputed(u) - pin[u].reported) * 100
          <= ANOMALY_THRESHOLD * Abs(pin[u].reported)

\* the TOP_K lowest-reporting workers all yield valid, pairwise distinct values
FirstKAllGood ==
    /\ Len(Ranked) >= TOP_K
    /\ \A i \in 1..TOP_K : YieldsValid(Ranked[i])
    /\ \A i, k \in 1..TOP_K :
          i # k => Abs(Recomputed(Ranked[i]) - Recomputed(Ranked[k]))
                      >= DIFFERENCE_THRESHOLD

\* the workers the scan can process at all
Scannable ==
    {u \in Range(Ranked) :
        /\ pin[u].reported # 0
        /\ ~(Audited(pin[u].draw, pin[u].vp) /\ pin[u].val_reason = "raise")}

\* C12: when the TOP_K lowest-reporting workers that passed the static pass all
\* yield valid, non-anomalous, pairwise non-duplicate values, processed_uids is
\* exactly those TOP_K workers in rank order, all valid and none duplicate; with
\* fewer than TOP_K unique valid outcomes every scannable worker was processed.
C12_EarlyTermination ==
    pout # None =>
        /\ FirstKAllGood =>
              /\ pout[1].event.processed_uids = SubSeq(Ranked, 1, TOP_K)
              /\ \A i \in 1..TOP_K :
                    pout[1].event.is_valid[i] /\ ~pout[1].event.is_duplicate[i]
        /\ Cardinality(ValidUnique(pout[1].event)) < TOP_K =>
              Range(pout[1].event.processed_uids) = Scannable

\* a run in which a sixth worker that would have been valid ranks below the
\* TOP_K good ones and is left out
C12_Witness ==
    /\ pout # None
    /\ FirstKAllGood
    /\ Len(Ranked) > TOP_K
    /\ YieldsValid(Ranked[TOP_K + 1])
    /\ Len(pout[1].event.processed_uids) = TOP_K

\* the positions of the returned event whose worker is marked valid
ValidAt == {i \in 1..Len(pout[1].event.processed_uids) : pout[1].event.is_valid[i]}

\* every valid worker of the run has the same value
SameValue == \A i, k \in ValidAt : Recomputed(ProcessedAt(i)) = Recomputed(ProcessedAt(k))

\* C13: when the n >= 2 valid workers of a run all have the identical value,
\* only the first in rank order is accepted: n - 1 of them are flagged
\* is_duplicate, one value is accepted as unique and exactly one returned energy
\* is non-zero.
C13_IdenticalValues ==
    (pout # None /\ Cardinality(ValidAt) >= 2 /\ SameValue) =>
        /\ Cardinality({i \in ValidAt : pout[1].event.is_duplicate[i]})
              = Cardinality(ValidAt) - 1
        /\ \A i \in ValidAt :
              pout[1].event.is_duplicate[i] <=> (\E k \in ValidAt : k < i)
        /\ Cardinality(ValidUnique(pout[1].event)) = 1
        /\ Cardinality(NonZero(pout[1].energies)) = 1

\* two workers report the same energy and both are audited to the same value
C13_Witness ==
    /\ pout # None
    /\ Cardinality(ValidAt) >= 2
    /\ SameValue
    /\ \A i \in ValidAt :
          /\ Audited(pin[ProcessedAt(i)].draw, pin[ProcessedAt(i)].vp)
          /\ pin[ProcessedAt(i)].val_median = pin[ProcessedAt(i)].reported

----------------------------------------------------------------------------
(* Properties of credibility_pipeline (SpecCredibility).                   *)

\* the reason recorded for uid u in the event of the cycle, if it was processed
ReasonsOf(event, u) ==
    {event.reason[i] : i \in {k \in 1..Len(event.processed_uids) :
                                 event.processed_uids[k] = u}}

\* the history h with one more sample, the oldest dropped from a full window
OneMore(h, sample) ==
    IF Len(h) < CredWindow THEN Append(h, sample)
    ELSE Append(SubSeq(h, 2, Len(h)), sample)

\* C14: in a cycle, a processed worker whose reason is not "skip" gets exactly
\* one credibility sample, 1 if and only if its reason is "valid", otherwise 0;
\* the history of a worker with reason "skip" and of a worker that was not
\* processed is unchanged.
C14_OneSamplePerAudit ==
    [][(pout = None /\ pout' # None) =>
          \A u \in 1..SysUids :
              LET reasons == ReasonsOf(pout'[1].event, u) \ {"skip"}
              IN  /\ reasons = {} => cred'[u] = cred[u]
                  /\ \A r \in reasons :
                        cred'[u] = OneMore(cred[u], IF r = "valid" THEN 1 ELSE 0)]_vars

\* a cycle with a worker with history <<1>> that was audited and found valid
\* next to a worker that was skipped or failed
C14_Witness ==
    /\ pout # None
    /\ \E u \in 1..SysUids :
          /\ ReasonsOf(pout[1].event, u) = {"valid"}
          /\ cred[u] = <<1, 1>>
    /\ \E u \in 1..SysUids :
          \/ ReasonsOf(pout[1].event, u) = {"skip"} /\ cred[u] = <<1>>
          \/ ReasonsOf(pout[1].event, u) = {"energy_difference_too_large"}
                /\ Len(cred[u]) = 2 /\ cred[u][2] = 0

\* C15: in a cycle, the score of a processed worker whose reason is
\* "state-checkpoint" is halved exactly once and a failing sample is recorded for
\* it; the score of every other worker is unchanged.
C15_IntegrityPenalty ==
    [][(pout = None /\ pout' # None) =>
          \A u \in 1..SysUids :
              IF "state-checkpoint" \in ReasonsOf(pout'[1].event, u)
              THEN /\ 2 * scores'[u] = scores[u]
                   /\ cred'[u] = OneMore(cred[u], 0)
              ELSE scores'[u] = scores[u]]_vars

\* a worker with a score of 8 before the cycle, caught with a tampered
\* checkpoint, next to a worker that failed its audit otherwise and kept its score
C15_Witness ==
    /\ pout # None
    /\ \E u \in 1..SysUids :
          /\ ReasonsOf(pout[1].event, u) = {"state-checkpoint"}
          /\ scores[u] = 4
    /\ \E u \in 1..SysUids :
          /\ ReasonsOf(pout[1].event, u) = {"invalid"}
          /\ scores[u] = 8

----------------------------------------------------------------------------
(* Properties of a run of the pipeline under failures (SpecPipeline).      *)

\* the handling of the response of worker u raises, in evaluate or in its audit
Fails(u) ==
    \/ pin[u].status \in RaiseStatuses
    \/ /\ CanProcess(pin[u])
       /\ pin[u].reported # 0
       /\ Audited(pin[u].draw, pin[u].vp)
       /\ pin[u].val_reason = "raise"

\* the responses of the run with no response from the workers that fail
WithoutFailing ==
    [u \in 1..Len(pin) |-> IF Fails(u) THEN Dropped("timeout") ELSE pin[u]]

----------------------------------------------------------------------------
(* Properties of the update loop under failures (SpecJobs).                *)

\* the jobs of the queue snapshot that come after the job being processed
RemainingJobs == IF upd.queue = <<>> THEN <<>> ELSE Tail(upd.queue)

\* C17: a failure while processing one ready job does not keep the remaining
\* jobs of the queue snapshot from being processed in the cycle: the cycle ends
\* (the loop goes back to sleep) only when no job of the snapshot remains.
C17_JobFailureIsolated ==
    [][(upd.pc # "sleep" /\ upd'.pc = "sleep") => RemainingJobs = <<>>]_vars

----------------------------------------------------------------------------
(* Properties of the organic intake (SpecOrganic).                         *)

\* the number of places of the sequence s that hold the request id
CountIn(s, id) == Cardinality({i \in 1..Len(s) : s[i].id = id})

RECURSIVE CountInPipe(_, _)
CountInPipe(pipe, id) ==
    IF pipe = <<>> THEN 0
    ELSE CountIn(Head(pipe).items, id) + CountInPipe(Tail(pipe), id)

\* C18: when the drain loop receives a batch that deserializes, every item of
\* the batch whose add does not fail is in the organic queue afterwards, also
\* the items after one whose add failed; a batch that does not deserialize is
\* taken off the pipe, so the batches after it are received.
C18_BatchItemsIsolated ==
    [][(org.pipe # <<>> /\ org'.pipe = Tail(org.pipe)) =>
          (~Head(org.pipe).corrupt =>
              \A i \in 1..Len(Head(org.pipe).items) :
                  Head(org.pipe).items[i].addable =>
                      CountIn(org'.queue, Head(org.pipe).items[i].id) = 1)]_vars

\* C19: a submitted request is in the organic queue at most once, and is never
\* at once in two of the intake queue, the pipe and the organic queue; a drain
\* whose send fails empties the intake queue and puts nothing in the pipe.
C19_AtMostOnce ==
    /\ [](\A id \in 1..MaxItems :
             CountIn(org.intake, id) + CountInPipe(org.pipe, id)
                + CountIn(org.queue, id) <= 1)
    /\ [][(org.intake # <<>> /\ org'.pipe = org.pipe /\ org'.queue = org.queue
             /\ org'.submitted = org.submitted /\ org' # org)
            => org'.intake = <<>>]_vars

\* a request lost in a failed send, a later one delivered to the organic queue
C19_Witness ==
    /\ org.submitted = MaxItems
    /\ org.send_errors > 0
    /\ org.intake = <<>>
    /\ org.pipe = <<>>
    /\ \E id \in 1..MaxItems :
          /\ CountIn(org.queue, id) = 0
          /\ \E later \in (id + 1)..MaxItems : CountIn(org.queue, later) = 1
    /\ \A i \in 1..Len(org.queue) : org.queue[i].addable

----------------------------------------------------------------------------
(* Properties of the shutdown (SpecShutdown).                              *)

\* C20: once should_exit is set, no scheduler loop performs a further iteration
\* of its body when it wakes.
C20_LoopsExitOnFlag ==
    [][life.should_exit => life'.runs = life.runs]_vars

----------------------------------------------------------------------------
(* Properties of the teardown (SpecTeardown).                              *)

\* the sequences of calls a complete teardown can make
TeardownTraces ==
    {<<"pkill rqlited", "loop.stop">>,
     <<"is_alive:false", "pkill rqlited", "loop.stop">>,
     <<"is_alive:true", "terminate", "join", "is_alive:false",
       "pkill rqlited", "loop.stop">>,
     <<"is_alive:true", "terminate", "join", "is_alive:true", "kill",
       "pkill rqlited", "loop.stop">>}

\* C21: __aexit__ while is_running asks a live API process to terminate, then
\* waits, and kills it only if it is still alive after the wait; afterwards
\* is_running is false and should_exit is true; a second __aexit__ makes no call.
C21_GracefulTeardown ==
    /\ [](life.exits > 0 =>
            /\ ~life.is_running
            /\ life.should_exit
            /\ life.calls \in TeardownTraces)
    /\ [](life.exits = 0 => life.calls = <<>>)
    /\ [][/\ (life.exits = 0 /\ life'.exits = 1 /\ IsAlive(life.proc))
               => life'.calls[1] = "is_alive:true"
          /\ (life.exits > 0 /\ life'.exits > life.exits)
               => (life'.calls = life.calls /\ life'.proc = life.proc)]_vars

\* an unresponsive process was killed, and __aexit__ was entered a second time
C21_Witness ==
    /\ life.exits = 2
    /\ \E i \in 1..Len(life.calls) : life.calls[i] = "kill"
    /\ life.proc = "dead"

----------------------------------------------------------------------------
(* Properties of the liveness monitor (SpecMonitor).                       *)

\* C22: at every check of monitor_validator, if more than 43200 seconds have
\* passed since the last job creation, should_exit is true after the check.
C22_MonitorRequestsExit ==
    [][(life'.woke # life.woke
          /\ now - life.last_time_created_jobs > NoJobsLimit)
         => life'.should_exit]_vars

----------------------------------------------------------------------------
(* Properties of the job creation (SpecCreate).                            *)

\* the store got one more job, a synthetic one
SyntheticCreated ==
    /\ Len(store') = Len(store) + 1
    /\ ~store'[Len(store')].is_organic

\* C23: a synthetic job is never created for a task id that is already in the
\* store, so that no two queued jobs share a task id, whatever the interleaving
\* of the creation loop with the insertion of organic jobs.
C23_SyntheticIsNew ==
    [][SyntheticCreated => store'[Len(store')].pdb \notin AllPdbs(store)]_vars

----------------------------------------------------------------------------
(* Who writes a stored job, and when (Spec).                               *)

\* the step is one of the update loop on the job at the head of its queue
UpdateLoopWrites(j) ==
    /\ upd.pc \in {"loop", "write"}
    /\ upd.queue # <<>>
    /\ Head(upd.queue).id = j
    /\ upd' # upd
    /\ rew' = rew
    /\ applied' = applied

\* C24: a stored job is only ever overwritten by the update loop, for the job it
\* has in hand and while that job is active; the reward loop, the creation of
\* synthetic jobs and the insertion of organic jobs leave the stored jobs alone.
C24_SingleWriter ==
    [][/\ Len(store') >= Len(store)
       /\ \A j \in 1..Len(store) :
             store'[j] # store[j] => (store[j].active /\ UpdateLoopWrites(j))]_vars

\* a job written by the update loop, finalized, and then read by the reward loop
C24_Witness ==
    /\ Len(store) = 1
    /\ ~store[1].active
    /\ store[1].updated_count > 0
    /\ applied[1] > 0
    /\ upd.pc = "sleep"

\* C25: the computed_rewards of a job are null for as long as the job is active.
C25_NullWhileActive ==
    \A j \in 1..Len(store) : store[j].active => store[j].computed_rewards = None

----------------------------------------------------------------------------
(* The active flag over several cycles of several jobs (SpecActive).       *)

\* C26: a job stored inactive stays inactive, is not in the queue of ready jobs
\* and is not among the jobs the update loop still has to dispatch.
C26_ActiveMonotone ==
    /\ [](\A i \in 1..Len(upd.queue) : store[upd.queue[i].id].active)
    /\ [](\A i \in 1..Len(ReadyQueue(store, 1)) :
             store[ReadyQueue(store, 1)[i].id].active)
    /\ [][\A j \in 1..Len(store) : ~store[j].active => ~store'[j].active]_vars

\* the first job was finalized in its first cycle; the update loop has woken
\* again and its queue holds the second job only
C26_Witness ==
    /\ ~store[1].active
    /\ store[1].updated_count = 1
    /\ store[2].active
    /\ store[2].updated_count = 1
    /\ upd.pc = "loop"
    /\ Len(upd.queue) = 1
    /\ upd.queue[1].id = 2

----------------------------------------------------------------------------
(* Properties of get_user_pdb_ids (SpecPdbIds).                            *)

\* the task ids of the rows of the user asked for
PdbIdsOfUser ==
    {call[1].table[i].pdb_id :
        i \in {k \in 1..Len(call[1].table) :
                  call[1].table[k].user_id = call[1].user_id}}

\* C27: the response lists, in increasing order and without duplicates, every
\* task id of the user's rows and no other, and total is the length of the list.
C27_AllPdbIdsOfUser ==
    ret # None =>
        /\ Range(ret[1].pdb_ids) = PdbIdsOfUser
        /\ \A i, j \in 1..Len(ret[1].pdb_ids) :
              i < j => ret[1].pdb_ids[i] < ret[1].pdb_ids[j]
        /\ ret[1].total = Len(ret[1].pdb_ids)

----------------------------------------------------------------------------
(* Properties of get_random_uids (SpecUids).                               *)

\* the uids that are serving and whose stake is not above the limit
AvailableUids ==
    {uid \in MetagraphUids :
        /\ call[1].metagraph.is_serving[uid]
        /\ call[1].metagraph.S[uid] <= VpermitTaoLimit}

\* the uids the caller excludes
ExcludedUids == IF call[1].exclude = None THEN {} ELSE call[1].exclude[1]

----------------------------------------------------------------------------
(* The energies a run of the pipeline returns (SpecPipeline).              *)

\* the positions of the returned event at which uid u is recorded
PositionsOf(u) ==
    {p \in 1..Len(pout[1].event.processed_uids) :
        pout[1].event.processed_uids[p] = u}

\* C29: the returned energies have one entry per queried uid, in the order of
\* the uids; the entry of a uid is non-zero only if the uid is in processed_uids
\* and flagged valid and not duplicate, and it is then that uid's own value.
C29_EnergiesPerUid ==
    pout # None =>
        /\ Len(pout[1].energies) = Len(pin)
        /\ \A u \in 1..Len(pin) :
              pout[1].energies[u] # 0 =>
                 /\ pout[1].energies[u] = Recomputed(u)
                 /\ \E p \in PositionsOf(u) :
                       /\ pout[1].event.is_valid[p]
                       /\ ~pout[1].event.is_duplicate[p]

\* a run whose second uid ranks first and is accepted, while the first uid fails
\* its audit, is recorded, and keeps a zero entry
C29_Witness ==
    /\ pout # None
    /\ Len(pin) = AuditUids
    /\ pout[1].event.processed_uids = <<2, 1>>
    /\ pout[1].energies[2] = Recomputed(2)
    /\ pout[1].energies[2] # 0
    /\ Recomputed(1) = 0
    /\ pout[1].energies[1] = 0

\* worker u, by its inputs, is audited to a value too far from what it reports
TooFar(u) ==
    /\ u \in Scannable
    /\ Recomputed(u) # 0
    /\ Abs(Recomputed(u) - pin[u].reported) * 100
          > ANOMALY_THRESHOLD * Abs(pin[u].reported)

\* C30: a worker flagged duplicate and a worker marked invalid for too large an
\* energy difference are not counted among the unique valid outcomes and have a
\* returned energy of 0; a worker whose difference is too large is recorded in
\* processed_uids whenever the scan was not stopped by the quota.
C30_FlaggedNotCounted ==
    pout # None =>
        /\ pout[1].count = Cardinality(ValidUnique(pout[1].event))
        /\ \A p \in 1..Len(pout[1].event.processed_uids) :
              (\/ pout[1].event.is_duplicate[p]
               \/ pout[1].event.reason[p] = "energy_difference_too_large")
                 => /\ p \notin ValidUnique(pout[1].event)
                    /\ pout[1].energies[pout[1].event.processed_uids[p]] = 0
        /\ pout[1].count < TOP_K =>
              \A u \in 1..Len(pin) :
                 TooFar(u) =>
                    \E p \in PositionsOf(u) :
                       /\ ~pout[1].event.is_valid[p]
                       /\ pout[1].event.reason[p] = "energy_difference_too_large"

\* a run with a unique valid worker, a duplicate of it and a worker whose
\* difference is too large: both are recorded, one outcome is counted
C30_Witness ==
    /\ pout # None
    /\ TooFar(1)
    /\ PositionsOf(1) # {}
    /\ pout[1].energies[1] = 0
    /\ \E p \in 1..Len(pout[1].event.processed_uids) :
          /\ pout[1].event.is_duplicate[p]
          /\ pout[1].event.is_valid[p]
          /\ Recomputed(pout[1].event.processed_uids[p]) # 0
          /\ pout[1].energies[pout[1].event.processed_uids[p]] = 0
    /\ pout[1].count = 1

----------------------------------------------------------------------------
(* Properties of the workers the audit loop trusts (SpecPipeline).         *)

\* worker u passed the static pass, reported a non-zero energy and its draw is
\* not below its validation probability
NotDrawn(u) ==
    /\ pin[u].status = "ok"
    /\ pin[u].reported # 0
    /\ pin[u].draw >= pin[u].vp

\* C31: a worker that is not drawn for audit is never recomputed; when the scan
\* reaches it (it is left out only when the scan stopped at TOP_K), it is
\* recorded with reason "skip" and as valid, hence not as anomalous, and its
\* accepted energy is the energy it reported unless it is flagged duplicate.
C31_SkipTrustsReported ==
    pout # None =>
        \A u \in 1..Len(pin) :
            NotDrawn(u) =>
                /\ u \notin Range(pout[1].validated)
                /\ u \notin Range(pout[1].event.processed_uids)
                      => pout[1].count = TOP_K
                /\ \A i \in 1..Len(pout[1].event.processed_uids) :
                      pout[1].event.processed_uids[i] = u =>
                          /\ pout[1].event.reason[i] = "skip"
                          /\ pout[1].event.is_valid[i]
                          /\ pout[1].event.reported_energy[i] = pin[u].reported
                          /\ pout[1].energies[u] =
                                IF pout[1].event.is_duplicate[i] THEN 0
                                ELSE pin[u].reported

\* two workers not drawn for audit: one accepted with the energy it reported,
\* the other flagged duplicate of it
C31_Witness ==
    /\ pout # None
    /\ \E u, w \in 1..Len(pin) :
          /\ NotDrawn(u) /\ NotDrawn(w)
          /\ \E i, k \in 1..Len(pout[1].event.processed_uids) :
                /\ pout[1].event.processed_uids[i] = u
                /\ pout[1].event.processed_uids[k] = w
                /\ pout[1].event.reason[i] = "skip"
                /\ ~pout[1].event.is_duplicate[i]
                /\ pout[1].energies[u] = pin[u].reported
                /\ pout[1].event.reason[k] = "skip"
                /\ pout[1].event.is_duplicate[k]
                /\ pout[1].energies[w] = 0

----------------------------------------------------------------------------
(* Properties of the order of the audit loop (SpecPipeline).               *)

\* the sequence s of uids is ordered by non-decreasing reported energy and
\* holds no uid twice
AscendingByReported(s) ==
    \A i, k \in 1..Len(s) :
        i < k => /\ pin[s[i]].reported <= pin[s[k]].reported
                 /\ s[i] # s[k]

\* the audit loop has something to do for worker w: it passed the static pass,
\* reported a non-zero energy, and its recomputation, if drawn, does not raise
Auditable(w) ==
    /\ pin[w].status = "ok"
    /\ pin[w].reported # 0
    /\ ~(Audited(pin[w].draw, pin[w].vp) /\ pin[w].val_reason = "raise")

\* C32: processed_uids is ordered by non-decreasing reported energy and holds
\* each uid at most once, and so are the recomputations in the order they were
\* made; a processed worker comes after every worker that passed the static
\* pass with a strictly lower, non-zero reported energy.
C32_AscendingAudit ==
    pout # None =>
        /\ AscendingByReported(pout[1].event.processed_uids)
        /\ AscendingByReported(pout[1].validated)
        /\ \A k \in 1..Len(pout[1].event.processed_uids) :
              \A w \in 1..Len(pin) :
                  (Auditable(w)
                     /\ pin[w].reported
                           < pin[pout[1].event.processed_uids[k]].reported)
                  => \E i \in 1..(k - 1) : pout[1].event.processed_uids[i] = w

\* a run in which the worker queried last reported the lowest energy and was
\* recomputed and processed first
C32_Witness ==
    /\ pout # None
    /\ Len(pout[1].event.processed_uids) >= 2
    /\ Len(pout[1].validated) >= 2
    /\ pout[1].event.processed_uids[1] = Len(pin)
    /\ pout[1].validated[1] = Len(pin)
    /\ pin[Len(pin)].reported < pin[pout[1].event.processed_uids[2]].reported

----------------------------------------------------------------------------
(* Properties of the workers dropped in a cycle (SpecCycles).              *)

\* the position of uid u in the sequence s of distinct uids that holds it
PositionIn(s, u) == CHOOSE i \in 1..Len(s) : s[i] = u

\* the response of the queried worker u did not pass the static pass
DroppedIn(responses, u) == responses[u].status # "ok"

\* C33: in a cycle, a queried worker whose response does not pass the static
\* pass is not in processed_uids, is not recomputed, has energy 0 and gets no
\* credibility sample; in the cycle after the first, a worker dropped in the
\* first is queried when its stake is still within the limit.
C33_DroppedForTheCycle ==
    [][ret' # ret =>
          /\ \A u \in Range(ret'[1].uids) :
                DroppedIn(pin', u) =>
                    /\ u \notin Range(pout'[1].event.processed_uids)
                    /\ u \notin Range(pout'[1].validated)
                    /\ pout'[1].energies[PositionIn(ret'[1].uids, u)] = 0
                    /\ cred'[u] = cred[u]
          /\ \A u \in Range(ret[1].uids) :
                (DroppedIn(pin, u) /\ call[1].metagraph.S[u] <= VpermitTaoLimit)
                    => u \in Range(ret'[1].uids)]_vars

\* after the second cycle: a worker was dropped in the first cycle and audited
\* in the second, next to a worker that is not serving, was dropped in the
\* second cycle and keeps the sample of its first
C33_Witness ==
    /\ ret[1].cycle = "next"
    /\ \E u, w \in Range(ret[1].uids) :
          /\ ~call[1].metagraph.is_serving[w]
          /\ ~DroppedIn(pin, u)
          /\ cred[u] = <<1>>
          /\ DroppedIn(pin, w)
          /\ cred[w] = <<1>>
          /\ pout[1].energies[PositionIn(ret[1].uids, w)] = 0
          /\ pout[1].energies[PositionIn(ret[1].uids, u)] # 0

----------------------------------------------------------------------------
(* Properties of the logs of the registry (SpecLogs).                      *)

\* C34: after every run of the pipeline, however it ends, the logs of every
\* worker are the logs of a reset registry.
C34_LogsCleared ==
    ret[1].phase # "none" =>
        \A u \in 1..SysUids : ret[1].logs[u] = DefaultLogs

----------------------------------------------------------------------------
(* Properties of the invocations of update_job (SpecActive).               *)

\* C35: every invocation of update_job ends with the job it was given written
\* to the store, whatever happened in it after job.update.
C35_AlwaysWritten ==
    [][(upd.pc = "write" /\ upd'.pc # "write")
          => store'[upd.cur[1].id] = upd.cur[1].job]_vars

----------------------------------------------------------------------------
(* Properties of the insertion of organic jobs (SpecDispatch).             *)

\* the organic setup of the call failed in one of the ways add_job handles
SetupFailed(setup) ==
    setup \in {"raises", "timeout", "positive_energy", "upload_fails"}

\* the jobs the update loop has read from the store or has in hand
Dispatched ==
    {upd.queue[k].job : k \in 1..Len(upd.queue)}
    \cup (IF upd.cur = None THEN {} ELSE {upd.cur[1].job})

\* C36: add_job goes on to the insertion when the organic setup failed, and the
\* job the store takes then has active = false and failed = true; the update
\* loop never reads or queries a failed job.
C36_FailedOrganicStored ==
    /\ [][(ret' # ret /\ SetupFailed(ret'[1].setup)) =>
             /\ ret'[1].upload = "ok" =>
                   /\ Len(store') = Len(store) + 1
                   /\ ret'[1].returned
                   /\ store'[Len(store')].is_organic
                   /\ ~store'[Len(store')].active
                   /\ store'[Len(store')].failed
             /\ ~ret'[1].event.active
             /\ ret'[1].event.failed]_vars
    /\ [](\A job \in Dispatched : ~job.failed)

\* an organic job whose initial energy was positive is in the store, inactive
\* and failed, next to an organic job the update loop has taken through a cycle
C36_Witness ==
    /\ ret # None
    /\ ret[1].setup = "positive_energy"
    /\ Len(store) = 2
    /\ store[1].updated_count > 0
    /\ ~store[2].active /\ store[2].failed /\ store[2].updated_count = 0
    /\ upd.pc = "sleep"

----------------------------------------------------------------------------
(* Properties of the calls of add_job (SpecAddJob).                        *)

\* C37: add_job returns True only when the store confirmed the insert with a
\* job_id that is not null; when the upload fails or the confirmation yields a
\* null job_id, it returns False, the job_id of the event is null and
\* last_time_created_jobs keeps its value.
C37_TrueOnlyWhenConfirmed ==
    [][ret' # ret =>
          /\ ret'[1].returned => ret'[1].event.job_id # None
          /\ ret'[1].upload # "ok" =>
                /\ ~ret'[1].returned
                /\ ret'[1].event.job_id = None
                /\ life'.last_time_created_jobs = life.last_time_created_jobs]_vars

\* C39: a call of add_job for an organic event leaves config.protein.input_source
\* as it was before the call, whether the setup succeeded or failed.
C39_InputSourceKept ==
    [][(ret' # ret /\ ret'[1].event.is_organic)
          => life'.input_source = life.input_source]_vars

----------------------------------------------------------------------------
(* Properties of the iterations of create_synthetic_jobs (SpecSynthetic).  *)

\* max(0, x)
AtLeastZero(x) == IF x < 0 THEN 0 ELSE x

\* C38: when an iteration of create_synthetic_jobs ends, the number of job
\* creations it attempted is max(0, queue_size - n), with n the size of the
\* queue it read at its start, and the queue is not above queue_size.
C38_CreatesWhatIsMissing ==
    (crt.ran /\ crt.pc = "sleep") =>
        /\ crt.attempted = AtLeastZero(crt.queue_size - crt.n)
        /\ NotReadyQueueSize(store) <= crt.queue_size

====
